---- MODULE Spec2Model ----
(***************************************************************************)
(* A model of the chat backend's turn pipeline:                            *)
(*   - the output normalizer postprocess_trpg of                           *)
(*     apps/api/routes/app_chat.py, regex by regex;                        *)
(*   - the in-memory session store SESSIONS and the chat / reset handlers  *)
(*     of apps/api/routes/app_chat.py;                                     *)
(*   - the chat handler of the stand-alone app_chat.py.                    *)
(*                                                                         *)
(* A text is a sequence of Unicode code points, so that the character      *)
(* classes of the regular expressions are the code point ranges the source *)
(* writes (Hangul syllables U+AC00..U+D7A3, ideographs U+4E00..U+9FFF ...). *)
(***************************************************************************)
EXTENDS Integers, Sequences, FiniteSets, TLC

(***************************************************************************)
(* Character classes                                                       *)
(***************************************************************************)
\* Python's \s for str patterns, and the characters str.strip() removes.
IsSpace(c) ==
    \/ c \in {9, 10, 11, 12, 13, 28, 29, 30, 31, 32, 133, 160, 5760}
    \/ (c >= 8192 /\ c <= 8202)
    \/ c \in {8232, 8233, 8239, 8287, 12288}

\* The line boundaries of str.splitlines().
IsLineBreak(c) == c \in {10, 11, 12, 13, 28, 29, 30, 133, 8232, 8233}

\* [U+AC00-U+D7A3], the Hangul syllables
IsHangul(c) == c >= 44032 /\ c <= 55203

\* [U+4E00-U+9FFF]
IsHanja(c) == c >= 19968 /\ c <= 40959

\* [U+3400-U+9FFF]
IsIdeograph(c) == c >= 13312 /\ c <= 40959

\* [A-Za-z]
IsLatin(c) == (c >= 65 /\ c <= 90) \/ (c >= 97 /\ c <= 122)

\* \d, on the digits the modelled texts use (ASCII 0-9).
IsDigit(c) == c >= 48 /\ c <= 57

\* [.!?]
IsTerminal(c) == c \in {46, 33, 63}

\* [,.!?;:]
IsPunct(c) == c \in {44, 46, 33, 63, 59, 58}

\* \w, on the classes the modelled texts use.
IsWordChar(c) == IsHangul(c) \/ IsLatin(c) \/ IsDigit(c) \/ IsIdeograph(c) \/ c = 95

\* [-U+2022]  (hyphen, bullet)
IsNarrowGlyph(c) == c \in {45, 8226}

\* [-U+2022 U+2013 U+2014 U+00B7 U+25E6] | [U+2460-U+2473]
IsBroadGlyph(c) == c \in {45, 8226, 8211, 8212, 183, 9702} \/ (c >= 9312 /\ c <= 9331)

(***************************************************************************)
(* String primitives.  A scan is "the leftmost index at which P holds"     *)
(* (FirstIdx), as a regular expression engine scans; recursion is per      *)
(* match, never per character.                                             *)
(***************************************************************************)
Max(S) == CHOOSE x \in S : \A y \in S : y <= x

Min(S) == CHOOSE x \in S : \A y \in S : x <= y

\* the least k in lo..hi with P(k), hi + 1 when there is none
FirstIdx(lo, hi, P(_)) ==
    IF lo > hi THEN hi + 1
    ELSE CHOOSE k \in lo..(hi + 1) :
             (k = hi + 1 \/ P(k)) /\ \A j \in lo..(k - 1) : ~P(j)

\* the greatest k in lo..hi with P(k), lo - 1 when there is none
LastIdx(lo, hi, P(_)) ==
    IF lo > hi THEN lo - 1
    ELSE CHOOSE k \in (lo - 1)..hi :
             (k = lo - 1 \/ P(k)) /\ \A j \in (k + 1)..hi : ~P(j)

\* the elements of a finite set of integers, ascending
SortedSeq(S) ==
    [r \in 1..Cardinality(S) |-> CHOOSE k \in S : Cardinality({x \in S : x < k}) = r - 1]

RECURSIVE FlatRange(_, _, _)
FlatRange(xs, lo, hi) ==
    IF lo > hi THEN <<>>
    ELSE IF lo = hi THEN xs[lo]
    ELSE LET m == (lo + hi) \div 2
         IN  FlatRange(xs, lo, m) \o FlatRange(xs, m + 1, hi)

\* the concatenation of a sequence of texts
Flatten(xs) == FlatRange(xs, 1, Len(xs))

FirstNonSpace(s, i) == FirstIdx(i, Len(s), LAMBDA k : ~IsSpace(s[k]))

LastNonSpace(s, j) == LastIdx(1, j, LAMBDA k : ~IsSpace(s[k]))

\* str.strip()
Strip(s) == SubSeq(s, FirstNonSpace(s, 1), LastNonSpace(s, Len(s)))

\* str.rstrip()
RStrip(s) == SubSeq(s, 1, LastNonSpace(s, Len(s)))

\* the first index >= i whose character is not in set, Len(s) + 1 when there is none
FirstNotIn(s, i, set) == FirstIdx(i, Len(s), LAMBDA k : s[k] \notin set)

\* the first index >= i of the character c in s, Len(s) + 1 when there is none
FirstEq(s, i, c) == FirstIdx(i, Len(s), LAMBDA k : s[k] = c)

\* str.strip(chars)
StripChars(s, set) ==
    SubSeq(s, FirstNotIn(s, 1, set), LastIdx(1, Len(s), LAMBDA k : s[k] \notin set))

\* the index after the line boundary at b ("\r\n" is one boundary)
AfterBreak(s, b) == IF s[b] = 13 /\ b < Len(s) /\ s[b + 1] = 10 THEN b + 2 ELSE b + 1

\* str.splitlines()
SplitLines(s) ==
    LET bs == SortedSeq({i \in 1..Len(s) :
                  IsLineBreak(s[i]) /\ ~(s[i] = 10 /\ i > 1 /\ s[i - 1] = 13)})
        n  == Len(bs)
        st == [r \in 1..(n + 1) |-> IF r = 1 THEN 1 ELSE AfterBreak(s, bs[r - 1])]
    IN  [r \in 1..n |-> SubSeq(s, st[r], bs[r] - 1)]
        \o (IF st[n + 1] <= Len(s) THEN <<SubSeq(s, st[n + 1], Len(s))>> ELSE <<>>)

\* sep.join(xs)
Join(xs, sep) ==
    Flatten([i \in 1..Len(xs) |-> IF i < Len(xs) THEN xs[i] \o sep ELSE xs[i]])

\* the literal pat occurs in s at index i
MatchAt(s, i, pat) ==
    /\ i >= 1
    /\ i + Len(pat) - 1 <= Len(s)
    /\ \A k \in 1..Len(pat) : s[i + k - 1] = pat[k]

\* the first index >= i at which pat occurs in s, 0 when there is none
Find(s, pat, i) ==
    LET k == FirstIdx(i, Len(s), LAMBDA j : MatchAt(s, j, pat))
    IN  IF k > Len(s) THEN 0 ELSE k

\* s contains the non-empty text t as a contiguous run
Contains(s, t) == Find(s, t, 1) > 0

RECURSIVE ReplaceFrom(_, _, _, _, _)
\* re.sub of a literal pattern; wb asks for a \b after the pattern
ReplaceFrom(s, pat, rep, wb, i) ==
    LET k == FirstIdx(i, Len(s), LAMBDA j :
                 /\ MatchAt(s, j, pat)
                 /\ (wb => (j + Len(pat) > Len(s) \/ ~IsWordChar(s[j + Len(pat)]))))
    IN  IF k > Len(s) THEN SubSeq(s, i, Len(s))
        ELSE SubSeq(s, i, k - 1) \o rep \o ReplaceFrom(s, pat, rep, wb, k + Len(pat))

ReplaceAll(s, pat, rep, wb) == ReplaceFrom(s, pat, rep, wb, 1)

\* [x.strip() for x in xs if x.strip()]
SelectNonBlank(xs) == SelectSeq([i \in 1..Len(xs) |-> Strip(xs[i])], LAMBDA x : x # <<>>)

\* xs[:k]
Take(xs, k) == SubSeq(xs, 1, IF k < Len(xs) THEN k ELSE Len(xs))

\* xs[-k:] for k > 0
LastK(xs, k) == IF Len(xs) <= k THEN xs ELSE SubSeq(xs, Len(xs) - k + 1, Len(xs))

\* list(dict.fromkeys(xs)): first occurrences, in order
Dedup(xs) ==
    LET first == {i \in 1..Len(xs) : \A j \in 1..(i - 1) : xs[j] # xs[i]}
        idx   == SortedSeq(first)
    IN  [r \in 1..Len(idx) |-> xs[idx[r]]]

(***************************************************************************)
(* Literals of apps/api/routes/app_chat.py, as code points                 *)
(***************************************************************************)
\* "[" U+C120 U+D0DD U+C9C0 "]", the choices header
HEADER == <<91, 49440, 53469, 51648, 93>>

\* BAD_PATTERNS: (pattern, replacement, pattern ends with \b)
BAD_PATTERNS == <<
    [pat |-> <<54616, 44256, 32, 51080, 49845, 45768, 45796>>,
     rep |-> <<54616, 44256, 32, 51080, 45796>>, wb |-> FALSE],
    [pat |-> <<54633, 45768, 45796, 46>>, rep |-> <<54644, 50836, 46>>, wb |-> FALSE],
    [pat |-> <<54633, 45768, 45796>>, rep |-> <<54644, 50836>>, wb |-> TRUE] >>

\* the base list of _synthesize_choices
base == <<
    <<51312, 50857, 55176, 32, 51452, 48320, 51012, 32, 45908, 32, 49332, 54592, 45796>>,
    <<44032, 44620, 50868, 32, 49324, 46988, 50640, 44172, 32, 47676, 51200, 32, 47568,
      51012, 32, 44148, 45796>>,
    <<51104, 49884, 32, 47688, 52656, 32, 49345, 54889, 51012, 32, 44032, 45728, 54620,
      45796>> >>

\* the two phrases _synthesize_choices appends to a noun
SITU_A == <<32, 51901, 51012, 32, 55128, 45143, 32, 49332, 54592, 45796>>

SITU_B == <<32, 44540, 52376, 47196, 32, 49332, 51677, 32, 51060, 46041, 54620, 45796>>

\* the sensory_pool of _enrich_scene_generic
sensory_pool == <<
    <<44277, 44592, 44032, 32, 49332, 51677, 32, 55124, 46308, 47160, 45796, 46>>,
    <<55148, 48120, 54620, 32, 49548, 51020, 51060, 32, 48148, 45797, 51012, 32, 49828,
      52452, 45796, 46>>,
    <<48731, 44284, 32, 44536, 47548, 51088, 44032, 32, 50581, 44172, 32, 48264, 51276,
      45796, 46>>,
    <<51008, 51008, 54620, 32, 45252, 49352, 44032, 32, 47604, 46024, 45796, 46>>,
    <<47680, 47532, 49436, 32, 51089, 51008, 32, 50885, 49457, 44144, 47548, 51060, 32,
      51060, 50612, 51276, 45796, 46>> >>

\* the arguments 4, 6 of the call _enrich_scene_generic(head_text, 4, 6)
MIN_SENT == 4

MAX_SENT == 6

\* the largest choice count postprocess_trpg serves: min(3, ...)
MAX_CHOICES == 3

\* the length of the run refine_ko breaks: {24,}
LONG_RUN == 24

(***************************************************************************)
(* postprocess_trpg, step by step                                          *)
(***************************************************************************)
\* One match of ^\s*\[[^\]]+\]\s*$ (re.M) starting at the line start p:
\* the index of its last character, 0 when there is no match at p.
MetaMatchEnd(s, p) ==
    LET a == FirstNonSpace(s, p)
        b == IF a <= Len(s) /\ s[a] = 91 THEN FirstEq(s, a + 1, 93) ELSE 0
    IN  IF b = 0 \/ b > Len(s) \/ b < a + 2 THEN 0
        ELSE LET e0 == FirstNonSpace(s, b + 1) - 1
                 nl == LastIdx(b + 1, e0, LAMBDA j : s[j] = 10)
             IN  IF e0 = Len(s) THEN Len(s)
                 ELSE IF nl <= b THEN 0 ELSE nl - 1

RECURSIVE SubMeta(_, _)
SubMeta(s, pos) ==
    LET p == FirstIdx(pos, Len(s), LAMBDA k :
                 (k = 1 \/ s[k - 1] = 10) /\ MetaMatchEnd(s, k) > 0)
    IN  IF p > Len(s) THEN SubSeq(s, pos, Len(s))
        ELSE SubSeq(s, pos, p - 1) \o SubMeta(s, MetaMatchEnd(s, p) + 1)

\* re.sub(r'^\s*\[[^\]]+\]\s*$', '', text, flags=re.M).strip()
strip_meta(text) == Strip(SubMeta(text, 1))

\* lines = [ln.rstrip() for ln in text.splitlines()]; whole = "\n".join(lines)
whole_of(text) ==
    LET lines == SplitLines(text)
    IN  Join([i \in 1..Len(lines) |-> RStrip(lines[i])], <<10>>)

\* The ends of the matches of \(?\d+\)?[.)] at p, in the order the regex tries them.
NumMarkerEnds(s, p) ==
    LET p0 == IF p <= Len(s) /\ s[p] = 40 THEN p + 1 ELSE p
        d  == FirstNotIn(s, p0, 48..57)
    IN  IF d = p0 THEN <<>>
        ELSE (IF d + 1 <= Len(s) /\ s[d] = 41 /\ s[d + 1] \in {46, 41}
              THEN <<d + 1>> ELSE <<>>)
             \o (IF d <= Len(s) /\ s[d] \in {46, 41} THEN <<d>> ELSE <<>>)

\* (?:[-U+2022]|\(?\d+\)?[.)]) at p
NarrowMarkerEnds(s, p) ==
    IF p <= Len(s) /\ IsNarrowGlyph(s[p]) THEN <<p>> ELSE NumMarkerEnds(s, p)

\* (?:[-U+2022...]|[U+2460-U+2473]|\(?\d+\)?[.)]) at p
BroadMarkerEnds(s, p) ==
    IF p <= Len(s) /\ IsBroadGlyph(s[p]) THEN <<p>> ELSE NumMarkerEnds(s, p)

\* re.match(r"^(?:[-U+2022]|\(?\d+\)?[.)])\s*(.+)$", s): group 1, or "no match"
ChoiceMatch(s) ==
    LET ends == NarrowMarkerEnds(s, 1)
        ok   == {k \in 1..Len(ends) : ends[k] < Len(s)}
    IN  IF ok = {} THEN [ok |-> FALSE, text |-> <<>>]
        ELSE LET e == ends[Min(ok)]
                 g == FirstNonSpace(s, e + 1)
             IN  [ok |-> TRUE,
                  text |-> SubSeq(s, IF g <= Len(s) THEN g ELSE Len(s), Len(s))]

\* lines 216-223: the choices extracted after the header; the loop stops at
\* the first blank line and skips the lines the pattern does not match
extract_choices(whole) ==
    LET h == Find(whole, HEADER, 1)
    IN  IF h = 0 THEN <<>>
        ELSE LET lines == SplitLines(SubSeq(whole, h + Len(HEADER), Len(whole)))
                 stop  == FirstIdx(1, Len(lines), LAMBDA i : Strip(lines[i]) = <<>>)
                 ms    == [i \in 1..(stop - 1) |-> ChoiceMatch(Strip(lines[i]))]
                 hit   == SelectSeq(ms, LAMBDA m : m.ok)
             IN  [i \in 1..Len(hit) |-> StripChars(Strip(hit[i].text), {40, 41, 91, 93})]

\* line 225: whole.split(HEADER, 1)[0].strip()
split_head(whole) ==
    LET h == Find(whole, HEADER, 1)
    IN  Strip(IF h = 0 THEN whole ELSE SubSeq(whole, 1, h - 1))

\* One match of ([^.!?]{24,}?)(,|\s)\s at pos: the index of the (,|\s)
\* character, 0 when there is no match at pos.
RunSep(s, pos) ==
    IF pos + LONG_RUN + 1 > Len(s) THEN 0
    ELSE IF \E k \in pos..(pos + LONG_RUN - 1) : IsTerminal(s[k]) THEN 0
    ELSE LET q == FirstIdx(pos + LONG_RUN, Len(s) - 1, LAMBDA k :
                      \/ IsTerminal(s[k])
                      \/ (s[k] = 44 \/ IsSpace(s[k])) /\ IsSpace(s[k + 1]))
         IN  IF q > Len(s) - 1 \/ IsTerminal(s[q]) THEN 0 ELSE q

RECURSIVE BreakLongRuns(_, _)
\* re.sub(r'([^.!?]{24,}?)(,|\s)\s', r'\1. ', text)
BreakLongRuns(s, pos) ==
    LET p == FirstIdx(pos, Len(s), LAMBDA k : RunSep(s, k) > 0)
    IN  IF p > Len(s) THEN SubSeq(s, pos, Len(s))
        ELSE SubSeq(s, pos, RunSep(s, p) - 1) \o <<46, 32>>
             \o BreakLongRuns(s, RunSep(s, p) + 2)

RECURSIVE ApplyBadPatterns(_, _)
ApplyBadPatterns(text, i) ==
    IF i > Len(BAD_PATTERNS) THEN text
    ELSE ApplyBadPatterns(
             ReplaceAll(text, BAD_PATTERNS[i].pat, BAD_PATTERNS[i].rep, BAD_PATTERNS[i].wb),
             i + 1)

refine_ko(text) == BreakLongRuns(ApplyBadPatterns(text, 1), 1)

Count(s, P(_)) == Cardinality({i \in 1..Len(s) : P(s[i])})

\* the condition of line 199, with hangul/total >= 0.2 as 5 * hangul >= total
KeepLine(ln) ==
    /\ Len(ln) > 0
    /\ 5 * Count(ln, IsHangul) >= Len(ln)
    /\ Count(ln, IsHanja) <= 2
    /\ Count(ln, IsLatin) <= 5

drop_non_korean_lines(s) ==
    Join(SelectSeq(SplitLines(s), LAMBDA ln : Strip(ln) # <<>> /\ KeepLine(ln)), <<10>>)

\* re.search(r'^(?:marker)\s', head_text, flags=re.M)
has_bullet_line(s) ==
    \E p \in 1..Len(s) :
        /\ p = 1 \/ s[p - 1] = 10
        /\ LET ends == BroadMarkerEnds(s, p)
           IN  \E k \in 1..Len(ends) : ends[k] < Len(s) /\ IsSpace(s[ends[k] + 1])

\* re.sub(r'^(?:marker)\s*', '', ln), then the closing period
DebulletLine(ln) ==
    LET ends == BroadMarkerEnds(ln, 1)
        body == IF ends = <<>> THEN ln
                ELSE SubSeq(ln, FirstNonSpace(ln, ends[1] + 1), Len(ln))
    IN  IF body # <<>> /\ IsTerminal(body[Len(body)]) THEN body ELSE body \o <<46>>

bullets_to_scene(text) ==
    LET lines == SelectNonBlank(SplitLines(text))
    IN  Strip(Join(Take([i \in 1..Len(lines) |-> DebulletLine(lines[i])], 5), <<32>>))

\* [s.strip() for s in re.split(r'(?<=[.!?])\s+', head) if s.strip()]
split_sentences(head) ==
    LET ds == SortedSeq({i \in 2..Len(head) :
                  IsSpace(head[i]) /\ IsTerminal(head[i - 1])})
        n  == Len(ds)
        st == [r \in 1..(n + 1) |-> IF r = 1 THEN 1 ELSE FirstNonSpace(head, ds[r - 1])]
    IN  SelectNonBlank([r \in 1..(n + 1) |->
            SubSeq(head, st[r], IF r <= n THEN ds[r] - 1 ELSE Len(head))])

\* ' '.join(sents[:max_sent]).strip()
join_sentences(sents) == Strip(Join(Take(sents, MAX_SENT), <<32>>))

\* re.findall(r'[U+AC00-U+D7A3]{2,}', head)
hangul_runs(s) ==
    LET st   == SortedSeq({k \in 1..Len(s) :
                    IsHangul(s[k]) /\ (k = 1 \/ ~IsHangul(s[k - 1]))})
        runs == [r \in 1..Len(st) |->
                    SubSeq(s, st[r], FirstIdx(st[r], Len(s), LAMBDA k : ~IsHangul(s[k])) - 1)]
    IN  SelectSeq(runs, LAMBDA r : Len(r) >= 2)

\* situ: two phrases per noun, in the order of the nouns
SituOf(nouns) ==
    [i \in 1..(2 * Len(nouns)) |->
        IF i % 2 = 1 THEN nouns[(i + 1) \div 2] \o SITU_A ELSE nouns[i \div 2] \o SITU_B]

\* list(dict.fromkeys(base + situ))
choice_pool(head) == Dedup(base \o SituOf(Take(hangul_runs(head), 6)))

HashMod == 2 ^ 26

RECURSIVE HashRange(_, _, _)
HashRange(s, lo, hi) ==
    IF lo > hi THEN 0
    ELSE IF lo = hi THEN (lo * s[lo]) % HashMod
    ELSE LET m == (lo + hi) \div 2
         IN  (HashRange(s, lo, m) + HashRange(s, m + 1, hi)) % HashMod

\* hash(head) & 0xffffffff: within one process a fixed function of the text
\* (a position-weighted sum stands for CPython's string hash).
seed_of(head) == HashRange(head, 1, Len(head))

RemoveAt(xs, i) == SubSeq(xs, 1, i - 1) \o SubSeq(xs, i + 1, Len(xs))

RECURSIVE Sample(_, _, _)
\* random.Random(seed).sample(pool, k): k distinct elements of pool, a fixed
\* function of (seed, pool); the generator's draws are the digits of the seed.
Sample(pool, k, seed) ==
    IF k = 0 \/ pool = <<>> THEN <<>>
    ELSE LET i == (seed % Len(pool)) + 1
         IN  <<pool[i]>> \o Sample(RemoveAt(pool, i), k - 1, seed \div Len(pool))

\* _synthesize_choices(head)
synthesize_choices(head) ==
    LET pool == choice_pool(head)
    IN  IF Len(pool) >= 3 THEN Sample(pool, 3, seed_of(head))
        ELSE Take(pool \o base, 3)

\* desired_choices = max(0, min(3, int(desired_choices or 0)))
clamp_choices(n) == Max({0, Min({MAX_CHOICES, n})})

\* lines 236-237: the extracted choices, filled up from the synthesized ones
fill_choices(choices, head, desired) ==
    IF Len(choices) < desired
    THEN choices \o Take(synthesize_choices(head), desired - Len(choices))
    ELSE choices

\* lines 238-242: uniq, the non-empty choices without repeats, cut to desired
uniq_choices(choices, desired) ==
    Take(Dedup(SelectSeq(choices, LAMBDA c : c # <<>>)), desired)

\* re.sub(r'\s*HEADER[\s\S]*$', '', head_text).strip()
cut_choices_block(head) ==
    LET h == Find(head, HEADER, 1)
    IN  Strip(IF h = 0 THEN head ELSE SubSeq(head, 1, LastNonSpace(head, h - 1)))

\* lines 233-245: the text before the cosmetic passes
assemble(head, uniq, desired) ==
    IF desired = 0 THEN cut_choices_block(head)
    ELSE Strip(head) \o
         (IF uniq # <<>>
          THEN <<10, 10>> \o HEADER \o <<10>>
               \o Join([i \in 1..Len(uniq) |-> <<45, 32>> \o uniq[i]], <<10>>)
          ELSE <<>>)

\* the table of str.maketrans at line 247
TransOf(c) ==
    CASE c = 65292 -> <<44, 32>>
      [] c = 12290 -> <<46, 32>>
      [] c = 65281 -> <<33, 32>>
      [] c = 65311 -> <<63, 32>>
      [] c = 65307 -> <<59, 32>>
      [] c = 65306 -> <<58, 32>>
      [] c = 65288 -> <<40>>
      [] c = 65289 -> <<41>>
      [] c = 12304 -> <<91>>
      [] c = 12305 -> <<93>>
      [] c = 12300 -> <<34>>
      [] c = 12301 -> <<34>>
      [] c = 12289 -> <<44, 32>>
      [] OTHER -> <<c>>

\* out.translate(trans)
Translate(s) == Flatten([i \in 1..Len(s) |-> TransOf(s[i])])

\* re.sub(r'[U+3400-U+9FFF]+', '', out)
RemoveIdeographs(s) == SelectSeq(s, LAMBDA c : ~IsIdeograph(c))

\* re.sub(r'\s{2,}', ' ', out): a run of two or more becomes one space
CollapseSpaces(s) ==
    Flatten([i \in 1..Len(s) |->
        IF ~IsSpace(s[i]) THEN <<s[i]>>
        ELSE IF i > 1 /\ IsSpace(s[i - 1]) THEN <<>>
        ELSE IF i < Len(s) /\ IsSpace(s[i + 1]) THEN <<32>>
        ELSE <<s[i]>>])

\* re.sub(r'\s+([,.!?;:])', r'\1', out): a run of spaces before a mark goes
TightenPunct(s) ==
    LET drop == {i \in 1..Len(s) :
                    /\ IsSpace(s[i])
                    /\ LET j == FirstNonSpace(s, i) IN j <= Len(s) /\ IsPunct(s[j])}
        keep == SortedSeq((1..Len(s)) \ drop)
    IN  [r \in 1..Len(keep) |-> s[keep[r]]]

\* re.sub(r'([,.!?;:])(?!\s|$)', r'\1 ', out)
SpaceAfterPunct(s) ==
    Flatten([i \in 1..Len(s) |->
        IF IsPunct(s[i]) /\ i < Len(s) /\ ~IsSpace(s[i + 1])
        THEN <<s[i], 32>> ELSE <<s[i]>>])

\* lines 247-253
cosmetic(out) ==
    Strip(SpaceAfterPunct(TightenPunct(CollapseSpaces(RemoveIdeographs(Translate(out))))))

\* lines 211-229: the scene before _enrich_scene_generic
normalize_head(text) ==
    LET whole == whole_of(strip_meta(text))
        h1    == drop_non_korean_lines(refine_ko(split_head(whole)))
    IN  IF has_bullet_line(h1) THEN bullets_to_scene(h1) ELSE h1

\* lines 211-223: the choices the reply itself carries
extracted_of(text) == extract_choices(whole_of(strip_meta(text)))

RECURSIVE PadWith(_, _, _)
\* _enrich_scene_generic when random.choice returns sensory_pool[fills[k]]
\* at its k-th call
PadWith(sents, fills, k) ==
    IF Len(sents) < MIN_SENT /\ Len(sents) < MAX_SENT /\ k <= Len(fills)
    THEN PadWith(Append(sents, sensory_pool[fills[k]]), fills, k + 1)
    ELSE sents

\* lines 231-253: from the enriched scene to the returned text
finish_with(head, extracted, n) ==
    LET desired == clamp_choices(n)
        uniq    == uniq_choices(fill_choices(extracted, head, desired), desired)
    IN  cosmetic(assemble(head, uniq, desired))

\* postprocess_trpg(text, n) under the given random.choice results
postprocess_with(text, n, fills) ==
    finish_with(join_sentences(PadWith(split_sentences(normalize_head(text)), fills, 1)),
                extracted_of(text), n)

(***************************************************************************)
(* The replies the formatter is run on: a scene followed by a choices      *)
(* block.  Scenes, in order: three sentences; four sentences; three with   *)
(* the last one unterminated; four with inner periods; a first line with   *)
(* a hyphen and no space; a first line with two hyphens; a long clause     *)
(* ending in a comma followed by a Latin line; four sentences followed by  *)
(* a Latin line; seven sentences.  Blocks, in order: none; the header on   *)
(* its own line and two bullets; the header inside the line and a          *)
(* repeated bullet; four distinct bullets; a bullet that is only brackets. *)
(***************************************************************************)
Scenes == <<
    <<48164, 51060, 45796, 46, 32, 48708, 44032, 32, 50728, 45796, 46, 32, 52645, 45796, 46>>,
    <<48164, 51060, 45796, 46, 32, 48708, 44032, 32, 50728, 45796, 46, 32, 52645, 45796, 46, 32, 50612, 46177, 45796, 46>>,
    <<48164, 51060, 45796, 46, 32, 48708, 44032, 32, 50728, 45796, 46, 32, 52645, 45796>>,
    <<48164, 51060, 45796, 46, 32, 48708, 44032, 32, 50728, 45796, 46, 32, 52645, 45796, 46, 32, 44032, 46, 45208, 46, 45796, 46, 46972>>,
    <<45, 44032, 45208, 45796, 46, 32, 48164, 51060, 45796, 46, 32, 48708, 44032, 32, 50728, 45796, 46, 32, 52645, 45796, 46>>,
    <<45, 32, 45, 32, 44032, 45208, 45796, 46, 32, 48164, 51060, 45796, 46, 32, 48708, 44032, 32, 50728, 45796, 46, 32, 52645, 45796, 46>>,
    <<48164, 51060, 45796, 46, 32, 48708, 44032, 32, 50728, 45796, 46, 32, 47928, 51012, 32, 50676, 44256, 32, 50612, 46160, 50868, 32, 48373, 46020, 47484, 32, 52380, 52380, 55176, 32, 48148, 46972, 48372, 47728, 32, 44152, 50612, 44036, 45796, 44, 10, 97, 98, 99>>,
    <<48164, 51060, 45796, 46, 32, 48708, 44032, 32, 50728, 45796, 46, 32, 52645, 45796, 46, 32, 50612, 46177, 45796, 46, 10, 97, 98, 99>>,
    <<44032, 45796, 46, 32, 45208, 45796, 46, 32, 45796, 45796, 46, 32, 46972, 45796, 46, 32, 47560, 45796, 46, 32, 48148, 45796, 46, 32, 49324, 45796, 46>> >>

Blocks == <<
    <<>>,
    <<10, 91, 49440, 53469, 51648, 93, 10, 45, 32, 44032, 51088, 10, 45, 32, 49772, 51088>>,
    <<32, 91, 49440, 53469, 51648, 93, 32, 45, 32, 44032, 51088, 10, 45, 32, 44032, 51088, 10, 45, 32, 49772, 51088>>,
    <<32, 91, 49440, 53469, 51648, 93, 32, 45, 32, 44032, 51088, 10, 45, 32, 49772, 51088, 10, 45, 32, 48372, 51088, 10, 45, 32, 51088, 51088>>,
    <<32, 91, 49440, 53469, 51648, 93, 32, 45, 32, 40, 41, 10, 45, 32, 44032, 51088>> >>

RawTexts == {Scenes[i] \o Blocks[j] : i \in 1..Len(Scenes), j \in 1..Len(Blocks)}

\* the choice counts a request can ask for (ChatIn.choices, clamped at line 232)
ChoiceCounts == 0..MAX_CHOICES

(***************************************************************************)
(* One call of postprocess_trpg(text, desired_choices) as a state machine: *)
(* the steps up to the scene's sentences, one step per random.choice of    *)
(* _enrich_scene_generic, the steps from the padded scene to the returned  *)
(* text.  The caller may then format the same reply once more.             *)
(***************************************************************************)
VARIABLES text, desired_choices, pc, sents, choices, out, run, first_out

fmtVars == <<text, desired_choices, pc, sents, choices, out, run, first_out>>

(***************************************************************************)
(* The session store of the chat routes: SESSIONS, the requests awaiting   *)
(* the model's reply, the clock, and what the checks look back on: the     *)
(* turns appended per history since it was created or reset, the records   *)
(* the last get_or_create_sid removed and the id it resolved.              *)
(***************************************************************************)
VARIABLES SESSIONS, pending, now, ticks, nreq, nsid, appended, evicted, last_sid

storeVars == <<SESSIONS, pending, now, ticks, nreq, nsid, appended, evicted, last_sid>>

(***************************************************************************)
(* The structured parse of play_turn (apps/api/routes/game_turn.py): the   *)
(* text the model returned, the stage the parse is at, the text            *)
(* extract_json cut out, the exception that left the handler if one did,   *)
(* the GameTurnLLMResponse the parse ended with and the stages that ran.   *)
(***************************************************************************)
VARIABLES raw_text, stage, cleaned, escaped, llm_data, trail

parseVars == <<raw_text, stage, cleaned, escaped, llm_data, trail>>

(***************************************************************************)
(* One call of _invoke_llm_with_timeout on the event loop of the server:   *)
(* where the awaiting coroutine is, the seconds since the wait began, what *)
(* the thread running llm.invoke has done, whether the loop is inside a    *)
(* synchronous stretch of another handler, and what the caller was given.  *)
(***************************************************************************)
VARIABLES call, elapsed, oracle, loop_busy, surfaced

invokeVars == <<call, elapsed, oracle, loop_busy, surfaced>>

(***************************************************************************)
(* The best-effort stages of a chat turn: the step the turn is at, the     *)
(* normalized text, what the embedding and the vector query did, the       *)
(* context retrieve_context returned, what polisher.invoke did and the     *)
(* text the turn answers with.                                             *)
(***************************************************************************)
VARIABLES step, normalized, retrieval, context, polisher, answer

stageVars == <<step, normalized, retrieval, context, polisher, answer>>

(***************************************************************************)
(* The parts of the program modelled further down, each with its own       *)
(* variables and the state in which it is at rest.                         *)
(***************************************************************************)
\* one call of build_messages: its arguments, the list it returned and the
\* history list as the caller finds it afterwards
VARIABLES m_mode, m_history, m_user_msg, m_extras, msgs, m_history_after

msgVars == <<m_mode, m_history, m_user_msg, m_extras, msgs, m_history_after>>

MsgIdle ==
    /\ m_mode = "none"
    /\ m_history = <<>>
    /\ m_user_msg = 0
    /\ m_extras = [context |-> 0, char_ctx |-> 0, char_rules |-> 0, choices |-> 0]
    /\ msgs = <<>>
    /\ m_history_after = <<>>

\* two calls of the chat of app_chat.py on one history key, each in a thread
\* of the server's pool: the list objects, the one sess[key] names, where
\* each call is, the object it loaded, the slice it built, whether the two
\* calls overlapped, and the history they started from
VARIABLES heap, sess_key, t_pc, t_ref, t_new, overlapped, h0

raceVars == <<heap, sess_key, t_pc, t_ref, t_new, overlapped, h0>>

RaceIdle ==
    /\ heap = <<>>
    /\ sess_key = 0
    /\ t_pc = <<>>
    /\ t_ref = <<>>
    /\ t_new = <<>>
    /\ overlapped = FALSE
    /\ h0 = <<>>

\* SendMessageUseCase.execute over the Mongo chat repository: the three
\* collections, and for each run of execute where it is, its arguments, the
\* user message insert_message gave it and the reply it got
VARIABLES chat_session, chat_message, chat_event, e_pc, e_args, e_user_msg, e_reply

sendVars == <<chat_session, chat_message, chat_event, e_pc, e_args, e_user_msg, e_reply>>

SendIdle ==
    /\ chat_session = <<>>
    /\ chat_message = <<>>
    /\ chat_event = <<>>
    /\ e_pc = <<>>
    /\ e_args = <<>>
    /\ e_user_msg = <<>>
    /\ e_reply = <<>>

\* the game routes over the Mongo collection game_session: the collection,
\* the last call of play_turn (who called, for which game, what the dice and
\* the LLM gave, the collection before the call and the response), and for
\* each call of get_or_create_game_session where it is, its arguments and
\* the session it returns
VARIABLES game_session, t_call, s_pc, s_args, s_result

gameVars == <<game_session, t_call, s_pc, s_args, s_result>>

GameIdle ==
    /\ game_session = <<>>
    /\ t_call = <<>>
    /\ s_pc = <<>>
    /\ s_args = <<>>
    /\ s_result = <<>>

\* the API behind its CORS middleware: the request last received and the
\* response given to it
VARIABLES c_request, c_response

corsVars == <<c_request, c_response>>

CorsIdle ==
    /\ c_request = <<>>
    /\ c_response = <<>>

laterVars == <<msgVars, raceVars, sendVars, gameVars, corsVars>>

LaterIdle == MsgIdle /\ RaceIdle /\ SendIdle /\ GameIdle /\ CorsIdle

\* what a step of one part of the program leaves alone
fmtFrame == <<storeVars, parseVars, invokeVars, stageVars, laterVars>>

storeFrame == <<fmtVars, parseVars, invokeVars, stageVars, laterVars>>

parseFrame == <<fmtVars, storeVars, invokeVars, stageVars, laterVars>>

invokeFrame == <<fmtVars, storeVars, parseVars, stageVars, laterVars>>

stageFrame == <<fmtVars, storeVars, parseVars, invokeVars, laterVars>>

\* the same for the parts modelled further down
msgFrame == <<fmtVars, storeVars, parseVars, invokeVars, stageVars, raceVars, sendVars, gameVars, corsVars>>

MsgOthersIdle == RaceIdle /\ SendIdle /\ GameIdle /\ CorsIdle

raceFrame == <<fmtVars, storeVars, parseVars, invokeVars, stageVars, msgVars, sendVars, gameVars, corsVars>>

RaceOthersIdle == MsgIdle /\ SendIdle /\ GameIdle /\ CorsIdle

sendFrame == <<fmtVars, storeVars, parseVars, invokeVars, stageVars, msgVars, raceVars, gameVars, corsVars>>

SendOthersIdle == MsgIdle /\ RaceIdle /\ GameIdle /\ CorsIdle

gameFrame == <<fmtVars, storeVars, parseVars, invokeVars, stageVars, msgVars, raceVars, sendVars, corsVars>>

GameOthersIdle == MsgIdle /\ RaceIdle /\ SendIdle /\ CorsIdle

corsFrame == <<fmtVars, storeVars, parseVars, invokeVars, stageVars, msgVars, raceVars, sendVars, gameVars>>

CorsOthersIdle == MsgIdle /\ RaceIdle /\ SendIdle /\ GameIdle

\* no model call is awaited
InvokeIdle ==
    /\ call = "idle"
    /\ elapsed = 0
    /\ oracle = [did |-> "idle", model |-> "none", error |-> "none"]
    /\ loop_busy = FALSE
    /\ surfaced = [kind |-> "none", status |-> 0, detail |-> "none", model |-> "none"]

\* no best-effort stage is running
StageIdle ==
    /\ step = "idle"
    /\ normalized = <<>>
    /\ retrieval = "none"
    /\ context = <<>>
    /\ polisher = [exc |-> "none", text |-> <<>>]
    /\ answer = <<>>

\* no turn is being parsed
ParseIdle ==
    /\ raw_text = <<>>
    /\ stage = "idle"
    /\ cleaned = <<>>
    /\ escaped = "none"
    /\ llm_data = [narration |-> <<>>]
    /\ trail = <<>>

\* the module-level state right after import: SESSIONS = {}
StoreInit ==
    /\ SESSIONS = [k \in {} |-> 0]
    /\ pending = {}
    /\ now = 0
    /\ ticks = 0
    /\ nreq = 0
    /\ nsid = 0
    /\ appended = [k \in {} |-> 0]
    /\ evicted = [k \in {} |-> 0]
    /\ last_sid = 0

FmtInit ==
    /\ text \in RawTexts
    /\ desired_choices \in ChoiceCounts
    /\ pc = "start"
    /\ sents = <<>>
    /\ choices = <<>>
    /\ out = <<>>
    /\ run = 1
    /\ first_out = <<>>

\* lines 211-229 and the split of line 205
Normalize ==
    /\ pc = "start"
    /\ sents' = split_sentences(normalize_head(text))
    /\ choices' = extracted_of(text)
    /\ pc' = "enrich"
    /\ UNCHANGED <<text, desired_choices, out, run, first_out, fmtFrame>>

\* one turn of the while loop of lines 206-207
Enrich ==
    /\ pc = "enrich"
    /\ Len(sents) < MIN_SENT /\ Len(sents) < MAX_SENT
    /\ \E f \in 1..Len(sensory_pool) : sents' = Append(sents, sensory_pool[f])
    /\ UNCHANGED <<text, desired_choices, pc, choices, out, run, first_out, fmtFrame>>

\* line 208 and lines 232-253
Finish ==
    /\ pc = "enrich"
    /\ ~(Len(sents) < MIN_SENT /\ Len(sents) < MAX_SENT)
    /\ out' = finish_with(join_sentences(sents), choices, desired_choices)
    /\ pc' = "done"
    /\ UNCHANGED <<text, desired_choices, sents, choices, run, first_out, fmtFrame>>

\* the same reply and the same count are formatted a second time
Rerun ==
    /\ pc = "done"
    /\ run = 1
    /\ run' = 2
    /\ first_out' = out
    /\ pc' = "start"
    /\ sents' = <<>>
    /\ choices' = <<>>
    /\ out' = <<>>
    /\ UNCHANGED <<text, desired_choices, fmtFrame>>

vars == <<fmtVars, storeVars, parseVars, invokeVars, stageVars, laterVars>>

Init == FmtInit /\ StoreInit /\ ParseIdle /\ InvokeIdle /\ StageIdle /\ LaterIdle

Next == Normalize \/ Enrich \/ Finish \/ Rerun

Spec == Init /\ [][Next]_vars

(***************************************************************************)
(* What a reader of the returned text sees: the scene is the text before   *)
(* the choices header, the choices are the "- " lines after it.            *)
(***************************************************************************)
scene_text(o) ==
    LET h == Find(o, HEADER, 1)
    IN  IF h = 0 THEN o ELSE Strip(SubSeq(o, 1, h - 1))

choice_lines(o) ==
    LET h == Find(o, HEADER, 1)
    IN  IF h = 0 THEN <<>>
        ELSE LET ls == SelectSeq(SplitLines(SubSeq(o, h + Len(HEADER), Len(o))),
                           LAMBDA ln : MatchAt(ln, 1, <<45, 32>>))
             IN  [i \in 1..Len(ls) |-> SubSeq(ls[i], 3, Len(ls[i]))]

\* the scene the choices were synthesized from (line 231)
head_text == join_sentences(sents)

\* the index of the first line of t that is the header alone, 0 when none is
header_line(t) ==
    LET ls == SplitLines(t)
        i  == FirstIdx(1, Len(ls), LAMBDA k : Strip(ls[k]) = HEADER)
    IN  IF i > Len(ls) THEN 0 ELSE i

\* scene lines, then the header on its own line, then bullet lines only
canonical_reply(t) ==
    LET ls == SplitLines(t)
        h  == header_line(t)
    IN  /\ 1 < h /\ h < Len(ls)
        /\ \A j \in 1..(h - 1) : ~Contains(ls[j], HEADER) /\ Strip(ls[j]) # <<>>
        /\ \A j \in (h + 1)..Len(ls) : ChoiceMatch(Strip(ls[j])).ok

\* the texts of the bullet lines after the header line
bullet_texts(t) ==
    LET ls == SplitLines(t)
        h  == header_line(t)
    IN  [j \in 1..(Len(ls) - h) |-> Strip(ChoiceMatch(Strip(ls[h + j])).text)]

\* a line without Hangul that carries a Latin letter or an ideograph
off_script(ln) ==
    /\ Count(ln, IsHangul) = 0
    /\ Count(ln, IsLatin) + Count(ln, IsIdeograph) >= 1

(***************************************************************************)
(* C1: for every reply and every desired count n in 0..3, the returned     *)
(* text carries exactly n choice lines under the header when n > 0 and no  *)
(* header at all when n = 0, also when the extracted choices repeat or     *)
(* become empty after stripping.                                           *)
(***************************************************************************)
C1_ExactChoiceCount ==
    pc = "done" =>
        IF desired_choices = 0 THEN ~Contains(out, HEADER)
        ELSE Len(choice_lines(out)) = desired_choices

(***************************************************************************)
(* C2: when the reply is scene lines, the header on its own line and then  *)
(* bullet lines, the bullet texts are the extracted choices and none of    *)
(* them appears in the returned scene; stripping the bracket-only lines    *)
(* does not remove the header before it is located.                        *)
(***************************************************************************)
C2_HeaderSplitsSceneFromChoices ==
    canonical_reply(text) =>
        /\ pc # "start" => choices = bullet_texts(text)
        /\ pc = "done" =>
               \A i \in 1..Len(bullet_texts(text)) :
                   ~Contains(scene_text(out), bullet_texts(text)[i])

(***************************************************************************)
(* C3: for n > 0 the returned choices are the extracted ones without       *)
(* repeats, in first-occurrence order, cut to n, followed by synthesized   *)
(* ones that fill the shortfall left after the repeats are removed.        *)
(***************************************************************************)
C3_DedupThenFill ==
    (pc = "done" /\ desired_choices > 0) =>
        LET d == Take(Dedup(SelectSeq(choices, LAMBDA c : c # <<>>)), desired_choices)
        IN  choice_lines(out)
                = d \o Take(synthesize_choices(head_text), desired_choices - Len(d))

(***************************************************************************)
(* C4: the returned scene, split by the formatter's own sentence splitter  *)
(* after the cosmetic passes, has between 4 and 6 sentences.               *)
(***************************************************************************)
C4_SentenceBounds ==
    pc = "done" =>
        /\ Len(split_sentences(scene_text(out))) >= MIN_SENT
        /\ Len(split_sentences(scene_text(out))) <= MAX_SENT

(***************************************************************************)
(* C5: no line of the returned scene starts with a bullet or numbering     *)
(* marker, nested markers and markers without a following space included.  *)
(***************************************************************************)
C5_NoResidualBullets ==
    pc = "done" =>
        LET ls == SplitLines(scene_text(out))
        IN  \A i \in 1..Len(ls) : BroadMarkerEnds(ls[i], 1) = <<>>

(***************************************************************************)
(* C6: a line of the reply without Hangul and with an off-script character *)
(* does not appear verbatim in the returned scene, although refine_ko runs *)
(* before the line filter and can join it onto a Korean line.              *)
(***************************************************************************)
C6_OffScriptLineDropped ==
    pc = "done" =>
        LET ls == SplitLines(text)
        IN  \A i \in 1..Len(ls) :
                off_script(ls[i]) => ~Contains(scene_text(out), Strip(ls[i]))

(***************************************************************************)
(* C7: formatting the same reply with the same count twice gives the same  *)
(* choices, also when fillers are added to the scene before the seed of    *)
(* the synthesis is taken from it.                                         *)
(***************************************************************************)
C7_SameChoicesTwice ==
    (run = 2 /\ pc = "done") => choice_lines(out) = choice_lines(first_out)

(***************************************************************************)
(* The session store and the chat handler of apps/api/routes/app_chat.py.  *)
(* A session is the dict SESSIONS[sid]: its "ts" and its histories, one    *)
(* per key history_<mode>_<char_key>.  A message's content is the number   *)
(* of the request that brought it.                                         *)
(***************************************************************************)
SESSION_TTL == 60 * 60 * 6

MAX_TURNS == 3

MAX_TURNS_QA == 3

MAX_TURNS_TRPG == 3

LLM_TIMEOUT == 25

\* requests per run, requests awaiting the model at once, session ids minted,
\* steps of the clock
MaxReq == 4

MaxPending == 2

MaxSids == 2

MaxTicks == 1

Modes == {"qa", "trpg"}

CharKeys == {"default"}

\* the clock moves by the TTL exactly, or by a second more
TickSteps == {SESSION_TTL, SESSION_TTL + 1}

\* key = f"history_{mode}_{char_key}"
history_key(mode, char_key) == <<"history", mode, char_key>>

NoHistories == [k \in {} |-> <<>>]

\* {"ts": time.time()}
new_session(t) == [ts |-> t, hist |-> NoHistories]

\* a sweep that also takes the record whose ts is the threshold itself
expired_or_at(ts, purge) == ts <= purge

\* SESSIONS[k]["ts"] < purge
expired(ts, purge) == ts < purge

\* get_or_create_sid once the id is resolved: the record under sid gets the
\* time t_ts, every record older than purge is deleted, the record is put back
get_or_create_sid(S, sid, fresh, t_ts, purge) ==
    LET sess == IF sid \in DOMAIN S THEN [S[sid] EXCEPT !.ts = t_ts]
                ELSE [fresh EXCEPT !.ts = t_ts]
        kept == {k \in DOMAIN S : ~expired(IF k = sid THEN t_ts ELSE S[k].ts, purge)}
    IN  [k \in kept \cup {sid} |-> IF k = sid THEN sess ELSE S[k]]

\* dict.setdefault(key, [])
setdefault(f, key) ==
    IF key \in DOMAIN f THEN f
    ELSE [k \in DOMAIN f \cup {key} |-> IF k = key THEN <<>> ELSE f[k]]

\* req.cookies.get(SESSION_COOKIE) or uuid.uuid4().hex: no cookie is 0, a
\* minted id is one that was never in use
resolve_sid(cookie) == IF cookie = 0 THEN nsid + 1 ELSE cookie

\* keep = (MAX_TURNS_TRPG if mode=="trpg" else MAX_TURNS_QA)*2
keep_of(mode) == (IF mode = "trpg" THEN MAX_TURNS_TRPG ELSE MAX_TURNS_QA) * 2

\* a cut that keeps the oldest entries, sess[key][: MAX_TURNS * 2]
window_head(history) == Take(history, MAX_TURNS * 2)

\* sess[key][-MAX_TURNS * 2 :]
window(history) == LastK(history, MAX_TURNS * 2)

\* the two messages of one turn
turn_of(id) == <<[role |-> "user", content |-> id], [role |-> "assistant", content |-> id]>>

\* lines 359-367: SESSIONS once the session is resolved, swept and given
\* the history key; the clock reads of one call fall in the same second
entered(cookie, key, fresh) ==
    LET sid == resolve_sid(cookie)
        S1  == get_or_create_sid(SESSIONS, sid, fresh, now, now - SESSION_TTL)
    IN  [S1 EXCEPT ![sid].hist = setdefault(@, key)]

\* the appended turns of the sessions that are left, the resolved one with
\* the key
entered_log(cookie, key, fresh) ==
    LET sid == resolve_sid(cookie)
    IN  [k \in DOMAIN entered(cookie, key, fresh) |->
            IF k # sid THEN appended[k]
            ELSE setdefault(IF k \in DOMAIN SESSIONS THEN appended[k]
                            ELSE [j \in DOMAIN fresh.hist |-> <<>>], key)]

\* the records the sweep deleted
swept(cookie, key, fresh) ==
    [k \in DOMAIN SESSIONS \ DOMAIN entered(cookie, key, fresh) |-> SESSIONS[k]]

\* chat, lines 323-412: up to the await of the model's reply; an empty
\* message returns at line 369
ChatBegin ==
    /\ nreq < MaxReq
    /\ \E cookie \in 0..nsid, mode \in Modes, char_key \in CharKeys, empty \in BOOLEAN :
        LET sid == resolve_sid(cookie)
            key == history_key(mode, char_key)
        IN  /\ cookie = 0 => nsid < MaxSids
            /\ ~empty => Cardinality(pending) < MaxPending
            /\ SESSIONS' = entered(cookie, key, new_session(now))
            /\ appended' = entered_log(cookie, key, new_session(now))
            /\ evicted' = swept(cookie, key, new_session(now))
            /\ last_sid' = sid
            /\ nsid' = IF cookie = 0 THEN nsid + 1 ELSE nsid
            /\ nreq' = nreq + 1
            /\ pending' =
                   IF empty THEN pending
                   ELSE pending \cup
                        {[id |-> nreq + 1, sid |-> sid, key |-> key, mode |-> mode,
                          history |-> LastK(SESSIONS'[sid].hist[key], keep_of(mode))]}
    /\ UNCHANGED <<now, ticks, storeFrame>>

\* chat, lines 413-446: the reply arrived; the turn is appended and the
\* history cut, with no await in between
ChatFinish ==
    /\ \E p \in pending :
        /\ SESSIONS' = [SESSIONS EXCEPT ![p.sid].hist[p.key] = window(@ \o turn_of(p.id))]
        /\ appended' = [appended EXCEPT ![p.sid][p.key] = @ \o turn_of(p.id)]
        /\ pending' = pending \ {p}
    /\ UNCHANGED <<now, ticks, nreq, nsid, evicted, last_sid, storeFrame>>

\* chat, lines 448-456: the model timed out or failed; HTTP 500, nothing stored
ChatFail ==
    /\ \E p \in pending : pending' = pending \ {p}
    /\ UNCHANGED <<SESSIONS, appended, now, ticks, nreq, nsid, evicted, last_sid, storeFrame>>

\* a reset that empties the histories of every session
cleared_everywhere(S, sid) ==
    [k \in DOMAIN S |-> [S[k] EXCEPT !.hist = [j \in DOMAIN @ |-> <<>>]]]

\* every history of the session becomes []
cleared(S, sid) == [S EXCEPT ![sid].hist = [k \in DOMAIN @ |-> <<>>]]

\* reset, lines 458-464
Reset ==
    /\ \E cookie \in 0..nsid :
        IF cookie # 0 /\ cookie \in DOMAIN SESSIONS
        THEN /\ SESSIONS' = cleared(SESSIONS, cookie)
             /\ appended' = [appended EXCEPT ![cookie] = [k \in DOMAIN @ |-> <<>>]]
        ELSE UNCHANGED <<SESSIONS, appended>>
    /\ UNCHANGED <<pending, now, ticks, nreq, nsid, evicted, last_sid, storeFrame>>

\* time passes; a request awaits the model for LLM_TIMEOUT at most (line 291)
Tick ==
    /\ ticks < MaxTicks
    /\ \E d \in TickSteps :
        /\ pending = {} \/ d <= LLM_TIMEOUT
        /\ now' = now + d
    /\ ticks' = ticks + 1
    /\ UNCHANGED <<SESSIONS, pending, nreq, nsid, appended, evicted, last_sid, storeFrame>>

\* no reply is being formatted
FmtIdle ==
    /\ text = <<>>
    /\ desired_choices = 0
    /\ pc = "idle"
    /\ sents = <<>>
    /\ choices = <<>>
    /\ out = <<>>
    /\ run = 0
    /\ first_out = <<>>

StoreNext == ChatBegin \/ ChatFinish \/ ChatFail \/ Reset \/ Tick

InitStore == FmtIdle /\ StoreInit /\ ParseIdle /\ InvokeIdle /\ StageIdle /\ LaterIdle

SpecStore == InitStore /\ [][StoreNext]_vars

(***************************************************************************)
(* The stand-alone server src/app_chat.py: the same store, a history per   *)
(* key history_<mode>, its own constants.  Its chat handler has no await   *)
(* and is taken as one step.                                               *)
(***************************************************************************)
LEGACY_MAX_TURNS == 12

LEGACY_MAX_TURNS_QA == 12

LEGACY_MAX_TURNS_TRPG == 6

\* requests per run and session ids minted in a run of the stand-alone server
LegacyMaxReq == 7

LegacyMaxSids == 1

\* key = f"history_{body.mode}"
legacy_key(mode) == <<"history", mode>>

\* {"ts": time.time(), "history": []}
legacy_new_session(t) == [ts |-> t, hist |-> [k \in {<<"history">>} |-> <<>>]]

\* keep = (MAX_TURNS_TRPG if mode == "trpg" else MAX_TURNS_QA) * 2
legacy_keep_of(mode) ==
    (IF mode = "trpg" THEN LEGACY_MAX_TURNS_TRPG ELSE LEGACY_MAX_TURNS_QA) * 2

\* a cut that keeps the oldest entries, sess[key][:MAX_TURNS*2]
legacy_window_head(history) == Take(history, LEGACY_MAX_TURNS * 2)

\* sess[key][-MAX_TURNS*2:]
legacy_window(history) == LastK(history, LEGACY_MAX_TURNS * 2)

\* chat, src/app_chat.py lines 436-472: get_or_create_sid, setdefault, the
\* return on an empty message, the append and the cut at lines 467-469
LegacyChat ==
    /\ nreq < LegacyMaxReq
    /\ \E cookie \in 0..nsid, mode \in Modes, empty \in BOOLEAN :
        LET sid   == resolve_sid(cookie)
            key   == legacy_key(mode)
            fresh == legacy_new_session(now)
        IN  /\ cookie = 0 => nsid < LegacyMaxSids
            /\ SESSIONS' =
                   IF empty THEN entered(cookie, key, fresh)
                   ELSE [entered(cookie, key, fresh) EXCEPT
                            ![sid].hist[key] = legacy_window(@ \o turn_of(nreq + 1))]
            /\ appended' =
                   IF empty THEN entered_log(cookie, key, fresh)
                   ELSE [entered_log(cookie, key, fresh) EXCEPT
                            ![sid][key] = @ \o turn_of(nreq + 1)]
            /\ evicted' = swept(cookie, key, fresh)
            /\ last_sid' = sid
            /\ nsid' = IF cookie = 0 THEN nsid + 1 ELSE nsid
            /\ nreq' = nreq + 1
    /\ UNCHANGED <<pending, now, ticks, storeFrame>>

\* reset (src/app_chat.py lines 474-481) has the code of the routes' reset
LegacyNext == LegacyChat \/ Reset \/ Tick

SpecLegacy == InitStore /\ [][LegacyNext]_vars

\* h is the end of a, in a's order
IsSuffix(h, a) ==
    /\ Len(h) <= Len(a)
    /\ \A i \in 1..Len(h) : h[i] = a[Len(a) - Len(h) + i]

(***************************************************************************)
(* C8: whatever chat requests ran on one (session, mode, character) key,   *)
(* the stored history is exactly the most recent of the turns appended to  *)
(* it since it was created or reset, in their order (a suffix of them, the *)
(* oldest dropped first), and never holds more than 2 * MAX_TURNS entries. *)
(***************************************************************************)
C8_HistoryIsBoundedSuffix ==
    \A sid \in DOMAIN SESSIONS :
        \A key \in DOMAIN SESSIONS[sid].hist :
            /\ IsSuffix(SESSIONS[sid].hist[key], appended[sid][key])
            /\ Len(SESSIONS[sid].hist[key]) <= 2 * MAX_TURNS
            /\ Len(SESSIONS[sid].hist[key]) =
                   Min({Len(appended[sid][key]), 2 * MAX_TURNS})

\* a history that has lost its oldest turn and is full
C8_Witness ==
    \E sid \in DOMAIN SESSIONS :
        \E key \in DOMAIN SESSIONS[sid].hist :
            /\ Len(appended[sid][key]) > 2 * MAX_TURNS
            /\ Len(SESSIONS[sid].hist[key]) = 2 * MAX_TURNS

\* the mode of a history key, "" for the key that carries none
mode_of(key) == IF Len(key) >= 2 THEN key[2] ELSE ""

(***************************************************************************)
(* C9: for every mode the stored list of each history of that mode has at  *)
(* most 2 * max_turns_for_mode entries, MAX_TURNS_TRPG for trpg and        *)
(* MAX_TURNS_QA otherwise, the constant build_messages cuts its window     *)
(* with; the store cuts with the mode's own constant.                      *)
(***************************************************************************)
C9_PerModeBound ==
    \A sid \in DOMAIN SESSIONS :
        \A key \in DOMAIN SESSIONS[sid].hist :
            mode_of(key) \in Modes =>
                Len(SESSIONS[sid].hist[key]) <= legacy_keep_of(mode_of(key))

(***************************************************************************)
(* C10: right after get_or_create_sid ran with the clock at now, the store *)
(* holds no other session whose ts is older than now - SESSION_TTL, and    *)
(* every other session whose ts is not older is still there, unchanged; a  *)
(* session that got a turn and then stayed idle past the TTL is gone once  *)
(* another session makes a request.                                        *)
(***************************************************************************)
C10_SweepRemovesExactlyTheExpired ==
    [][nreq' # nreq =>
          /\ \A k \in DOMAIN SESSIONS' \ {last_sid'} :
                 ~(SESSIONS'[k].ts < now' - SESSION_TTL)
          /\ \A k \in DOMAIN SESSIONS \ {last_sid'} :
                 ~(SESSIONS[k].ts < now' - SESSION_TTL) =>
                     k \in DOMAIN SESSIONS' /\ SESSIONS'[k] = SESSIONS[k]]_vars

\* a session with a stored turn was swept by the request of another session
C10_Witness ==
    /\ \E k \in DOMAIN evicted :
           \E key \in DOMAIN evicted[k].hist : evicted[k].hist[key] # <<>>
    /\ last_sid \in DOMAIN SESSIONS
    /\ DOMAIN evicted \cap DOMAIN SESSIONS = {}

(***************************************************************************)
(* C11: a request that presents the id of a record whose ts is older than  *)
(* now - SESSION_TTL, not yet swept, starts fresh: once the session is     *)
(* resolved every history of it is empty, so the history its prompt is     *)
(* built from is empty and no old turn is carried over.                    *)
(***************************************************************************)
C11_ExpiredSessionStartsFresh ==
    [][(/\ nreq' # nreq
        /\ last_sid' \in DOMAIN SESSIONS
        /\ SESSIONS[last_sid'].ts < now' - SESSION_TTL) =>
           \A key \in DOMAIN SESSIONS'[last_sid'].hist :
               SESSIONS'[last_sid'].hist[key] = <<>>]_vars

(***************************************************************************)
(* C12: the id get_or_create_sid returns is the presented token only when  *)
(* that token is a key of SESSIONS; with no token, or with a token that is *)
(* no key of SESSIONS, it is an id minted by this call, never in use       *)
(* before.                                                                 *)
(***************************************************************************)
C12_UnknownTokenMintsNewId ==
    [][nreq' # nreq =>
          \/ last_sid' \in DOMAIN SESSIONS
          \/ nsid' = nsid + 1 /\ last_sid' = nsid']_vars

\* the record with every history emptied: same ts, same keys
emptied(sess) == [ts |-> sess.ts, hist |-> [k \in DOMAIN sess.hist |-> <<>>]]

FENCE == <<96, 96, 96>>

\* "json"
JSON_TAG == <<106, 115, 111, 110>>

\* narration[:400]
FALLBACK_LIMIT == 400

\* the placeholder narration of line 90
FALLBACK_NARRATION ==
    <<51060, 48264, 32, 53556, 51032, 32, 49444, 47749, 51012, 32, 48520, 47084,
      50724, 45716, 32, 45936, 32, 49892, 54056, 54664, 49845, 45768, 45796, 46>>

\* str.lstrip()
LStrip(s) == SubSeq(s, FirstNonSpace(s, 1), Len(s))

\* str.lower() on the letters A-Z
Lower(s) == [i \in 1..Len(s) |-> IF s[i] >= 65 /\ s[i] <= 90 THEN s[i] + 32 ELSE s[i]]

\* str.startswith(p)
StartsWith(s, p) == MatchAt(s, 1, p)

RECURSIVE SplitFrom(_, _, _)
SplitFrom(s, sep, i) ==
    LET k == Find(s, sep, i)
    IN  IF k = 0 THEN <<SubSeq(s, i, Len(s))>>
        ELSE <<SubSeq(s, i, k - 1)>> \o SplitFrom(s, sep, k + Len(sep))

\* str.split(sep)
Split(s, sep) == SplitFrom(s, sep, 1)

\* str.split(sep, 1)
SplitOnce(s, sep) ==
    LET k == Find(s, sep, 1)
    IN  IF k = 0 THEN <<s>>
        ELSE <<SubSeq(s, 1, k - 1), SubSeq(s, k + Len(sep), Len(s))>>

\* lines 69-73: from the first "{" to the last "}"
cut_braces(s) ==
    LET start == Find(s, <<123>>, 1)
        end   == LastIdx(1, Len(s), LAMBDA k : s[k] = 125)
    IN  IF start # 0 /\ end # 0 /\ end > start THEN SubSeq(s, start, end) ELSE s

\* lines 54-64: the text inside the fence; exc is the exception raised by
\* cleaned.split("\n", 1)[1] when no newline follows the language tag
unfence(s) ==
    LET parts == Split(s, FENCE)
    IN  IF Len(parts) >= 3
        THEN IF StartsWith(Lower(LStrip(parts[2])), JSON_TAG)
             THEN LET halves == SplitOnce(parts[2], <<10>>)
                  IN  IF Len(halves) >= 2 THEN [exc |-> "none", text |-> halves[2]]
                      ELSE [exc |-> "IndexError", text |-> parts[2]]
             ELSE [exc |-> "none", text |-> parts[2]]
        ELSE [exc |-> "none", text |-> ReplaceAll(s, FENCE, <<>>, FALSE)]

\* extract_json(text) for a str
extract_json(t) ==
    LET s == Strip(t)
        u == IF StartsWith(s, FENCE) THEN unfence(s) ELSE [exc |-> "none", text |-> s]
    IN  IF u.exc # "none" THEN u ELSE [exc |-> "none", text |-> cut_braces(Strip(u.text))]

\* UserStatusChange(): every delta 0, no item
UserStatusChange(hp) ==
    [hp_delta |-> hp, mp_delta |-> 0, gold_delta |-> 0,
     items_add |-> <<>>, items_remove |-> <<>>]

\* a GameTurnLLMResponse; updated_combat is None unless the document sets it
GameTurnLLMResponse(narration, hp) ==
    [narration |-> narration, dialogues |-> <<>>,
     status_changes |-> [user |-> UserStatusChange(hp), characters |-> <<>>],
     updated_combat |-> "None"]

\* a fallback that cuts the text and adds no ellipsis
fallback_cut_short(t) ==
    GameTurnLLMResponse(IF Strip(t) # <<>> THEN Take(Strip(t), FALLBACK_LIMIT)
                        ELSE FALLBACK_NARRATION, 0)

\* build_fallback_llm_response(raw_text)
build_fallback_llm_response(t) ==
    LET stripped  == Strip(t)
        narration == IF Len(stripped) > FALLBACK_LIMIT
                     THEN SubSeq(stripped, 1, FALLBACK_LIMIT) \o <<46, 46, 46>>
                     ELSE stripped
    IN  GameTurnLLMResponse(IF narration # <<>> THEN narration ELSE FALLBACK_NARRATION, 0)

\* the documents the replies are built around: the text, whether it is a
\* JSON object that satisfies the schema, and the fields it sets
Docs ==
    <<
      \* {"narration":"a","dialogues":[],"status_changes":{"user":{}}}
      [text |-> <<123, 34, 110, 97, 114, 114, 97, 116, 105, 111, 110, 34, 58, 34, 97, 34, 44, 34, 100, 105, 97, 108, 111, 103, 117, 101, 115, 34, 58, 91, 93, 44, 34, 115, 116, 97, 116, 117, 115, 95, 99, 104, 97, 110, 103, 101, 115, 34, 58, 123, 34, 117, 115, 101, 114, 34, 58, 123, 125, 125, 125>>,
       valid |-> TRUE, narration |-> <<97>>, hp_delta |-> 0],
      \* {\n"narration":"b",\n"dialogues":[],\n"status_changes":{"user":{"hp_delta":-1}}\n}
      [text |-> <<123, 10, 34, 110, 97, 114, 114, 97, 116, 105, 111, 110, 34, 58, 34, 98, 34, 44, 10, 34, 100, 105, 97, 108, 111, 103, 117, 101, 115, 34, 58, 91, 93, 44, 10, 34, 115, 116, 97, 116, 117, 115, 95, 99, 104, 97, 110, 103, 101, 115, 34, 58, 123, 34, 117, 115, 101, 114, 34, 58, 123, 34, 104, 112, 95, 100, 101, 108, 116, 97, 34, 58, 45, 49, 125, 125, 10, 125>>,
       valid |-> TRUE, narration |-> <<98>>, hp_delta |-> -1],
      \* {"narration":"c"}
      [text |-> <<123, 34, 110, 97, 114, 114, 97, 116, 105, 111, 110, 34, 58, 34, 99, 34, 125>>,
       valid |-> FALSE, narration |-> <<99>>, hp_delta |-> 0]
    >>

\* what a reply puts before and after the document
Wrappers ==
    <<
      \* '' ... ''
      [pre |-> <<>>, post |-> <<>>],
      \* '```json\n' ... '\n```'
      [pre |-> <<96, 96, 96, 106, 115, 111, 110, 10>>, post |-> <<10, 96, 96, 96>>],
      \* '```\n' ... '\n```'
      [pre |-> <<96, 96, 96, 10>>, post |-> <<10, 96, 96, 96>>],
      \* '```json' ... '```'
      [pre |-> <<96, 96, 96, 106, 115, 111, 110>>, post |-> <<96, 96, 96>>],
      \* '```' ... '```'
      [pre |-> <<96, 96, 96>>, post |-> <<96, 96, 96>>],
      \* 'Here is the turn:\n' ... '\nEnjoy.'
      [pre |-> <<72, 101, 114, 101, 32, 105, 115, 32, 116, 104, 101, 32, 116, 117, 114, 110, 58, 10>>, post |-> <<10, 69, 110, 106, 111, 121, 46>>],
      \* '```json\n' ... ''
      [pre |-> <<96, 96, 96, 106, 115, 111, 110, 10>>, post |-> <<>>],
      \* '```JSON\n' ... '\n```'
      [pre |-> <<96, 96, 96, 74, 83, 79, 78, 10>>, post |-> <<10, 96, 96, 96>>],
      \* 'Sure.\n```json\n' ... '\n```\nDone.'
      [pre |-> <<83, 117, 114, 101, 46, 10, 96, 96, 96, 106, 115, 111, 110, 10>>, post |-> <<10, 96, 96, 96, 10, 68, 111, 110, 101, 46>>],
      \* ' \n' ... '\n '
      [pre |-> <<32, 10>>, post |-> <<10, 32>>],
      \* '``` json\n' ... '```'
      [pre |-> <<96, 96, 96, 32, 106, 115, 111, 110, 10>>, post |-> <<96, 96, 96>>],
      \* '```javascript\n' ... '\n```'
      [pre |-> <<96, 96, 96, 106, 97, 118, 97, 115, 99, 114, 105, 112, 116, 10>>, post |-> <<10, 96, 96, 96>>],
      \* '```json ' ... '\n```'
      [pre |-> <<96, 96, 96, 106, 115, 111, 110, 32>>, post |-> <<10, 96, 96, 96>>]
    >>

\* the wrappers that are a code fence, with or without a language tag, with or
\* without a newline after it, or prose without braces around the document
FencedOrProse == {2, 3, 4, 5, 6, 8, 13}

\* the white space a JSON text may have around its value
JsonTrim(t) == StripChars(t, {32, 9, 10, 13})

\* GameTurnLLMResponse.model_validate_json(t): the value of the document t
\* is, or the ValidationError of a text that is no document of the schema
model_validate_json(t) ==
    LET hits == {i \in 1..Len(Docs) : Docs[i].valid /\ Docs[i].text = JsonTrim(t)}
    IN  IF hits = {} THEN [exc |-> "ValidationError", value |-> [narration |-> <<>>]]
        ELSE LET d == Docs[CHOOSE i \in hits : TRUE]
             IN  [exc |-> "none", value |-> GameTurnLLMResponse(d.narration, d.hp_delta)]

\* a reply built of a wrapper and a document
wrapped(w, d) == Wrappers[w].pre \o Docs[d].text \o Wrappers[w].post

\* a run of n letters x
Letters(n) == [i \in 1..n |-> 120]

\* replies that hold no document: empty, blank, prose, lone fences, long text
Proses ==
    { <<>>, <<32, 10, 32>>,
      <<110, 111, 116, 32, 106, 115, 111, 110, 32, 97, 116, 32, 97, 108, 108, 44,
        32, 106, 117, 115, 116, 32, 112, 114, 111, 115, 101>>,
      <<96, 96, 96, 106, 115, 111, 110, 96, 96, 96>>,
      <<96, 96, 96>>, <<96, 96, 96, 106, 115, 111, 110>>, <<123>>, <<125, 32, 123>>,
      Letters(FALLBACK_LIMIT), Letters(FALLBACK_LIMIT + 1),
      <<32>> \o Letters(FALLBACK_LIMIT) \o <<10>>,
      <<32>> \o Letters(FALLBACK_LIMIT + 1) \o <<10>> }

RawReplies ==
    {wrapped(w, d) : w \in 1..Len(Wrappers), d \in 1..Len(Docs)} \cup Proses

\* handlers that take no exception at all
catches_nothing(exc) == FALSE

\* a handler that names the parse error only
catches_validation_only(exc) == exc = "ValidationError"

\* the classes the handlers name: "except Exception" takes every one
catches(exc) == exc \in {"ValidationError", "IndexError"}

\* raw_text = raw_response, line 500
ParseInit ==
    /\ raw_text \in RawReplies
    /\ stage = "direct"
    /\ cleaned = <<>>
    /\ escaped = "none"
    /\ llm_data = [narration |-> <<>>]
    /\ trail = <<>>

\* lines 503-505
AttemptDirectParse ==
    /\ stage = "direct"
    /\ LET r == model_validate_json(raw_text)
       IN  /\ stage' = IF r.exc = "none" THEN "done"
                       ELSE IF catches(r.exc) THEN "extract" ELSE "raised"
           /\ llm_data' = IF r.exc = "none" THEN r.value ELSE llm_data
           /\ escaped' = IF r.exc # "none" /\ ~catches(r.exc) THEN r.exc ELSE escaped
    /\ trail' = Append(trail, "direct")
    /\ UNCHANGED <<raw_text, cleaned, parseFrame>>

\* lines 507-510
AttemptExtractAndParse ==
    /\ stage = "extract"
    /\ LET e   == extract_json(raw_text)
           r   == model_validate_json(e.text)
           exc == IF e.exc # "none" THEN e.exc ELSE r.exc
       IN  /\ cleaned' = IF e.exc = "none" THEN e.text ELSE cleaned
           /\ stage' = IF exc = "none" THEN "done"
                       ELSE IF catches(exc) THEN "fallback" ELSE "raised"
           /\ llm_data' = IF exc = "none" THEN r.value ELSE llm_data
           /\ escaped' = IF exc # "none" /\ ~catches(exc) THEN exc ELSE escaped
    /\ trail' = Append(trail, "extract")
    /\ UNCHANGED <<raw_text, parseFrame>>

\* lines 511-515
FallbackWrap ==
    /\ stage = "fallback"
    /\ llm_data' = build_fallback_llm_response(raw_text)
    /\ stage' = "done"
    /\ trail' = Append(trail, "fallback")
    /\ UNCHANGED <<raw_text, cleaned, escaped, parseFrame>>

TurnNext == AttemptDirectParse \/ AttemptExtractAndParse \/ FallbackWrap

InitTurn == FmtIdle /\ StoreInit /\ ParseInit /\ InvokeIdle /\ StageIdle /\ LaterIdle

SpecTurn == InitTurn /\ [][TurnNext]_vars

\* v has the fields of GameTurnLLMResponse, each of its type
SchemaOk(v) ==
    /\ DOMAIN v = {"narration", "dialogues", "status_changes", "updated_combat"}
    /\ v.narration \in Seq(Nat)
    /\ v.dialogues \in Seq(Nat)
    /\ DOMAIN v.status_changes = {"user", "characters"}
    /\ v.status_changes.user.hp_delta \in Int
    /\ v.status_changes.user.mp_delta \in Int
    /\ v.status_changes.user.gold_delta \in Int
    /\ v.status_changes.user.items_add \in Seq(Nat)
    /\ v.status_changes.user.items_remove \in Seq(Nat)
    /\ v.status_changes.characters \in Seq(Nat)

(***************************************************************************)
(* C14: whatever text the model returned (empty, blank, prose, unbalanced  *)
(* fences, a fence with a language tag and no newline), the parse is at    *)
(* one of its three stages or has ended, no stage runs twice, no exception *)
(* of the parse leaves the handler, and when it has ended llm_data is a    *)
(* GameTurnLLMResponse that satisfies the schema.                          *)
(***************************************************************************)
C14_ParseIsTotal ==
    /\ stage \in {"direct", "extract", "fallback", "done"}
    /\ escaped = "none"
    /\ Len(trail) <= 3
    /\ stage = "done" => SchemaOk(llm_data)

\* the reply ```json{...}``` made extract_json raise and the parse ended
\* with the fallback
C14_Witness ==
    /\ stage = "done"
    /\ raw_text = wrapped(4, 1)
    /\ extract_json(raw_text).exc = "IndexError"
    /\ trail = <<"direct", "extract", "fallback">>
    /\ llm_data = build_fallback_llm_response(raw_text)

(***************************************************************************)
(* C15: when both parse attempts failed, the narration of the result is    *)
(* the stripped raw text when that has at most 400 characters, its first   *)
(* 400 characters and "..." when it is longer, the placeholder when it is  *)
(* empty; there are no dialogues, the user's hp, mp and gold deltas are 0  *)
(* and its item lists empty, no character delta, and no updated_combat.    *)
(***************************************************************************)
C15_FallbackShape ==
    (stage = "done" /\ trail = <<"direct", "extract", "fallback">>) =>
        LET t == Strip(raw_text)
        IN  /\ llm_data.narration =
                   IF t = <<>> THEN FALLBACK_NARRATION
                   ELSE IF Len(t) <= 400 THEN t
                   ELSE SubSeq(t, 1, 400) \o <<46, 46, 46>>
            /\ llm_data.dialogues = <<>>
            /\ llm_data.status_changes.user.hp_delta = 0
            /\ llm_data.status_changes.user.mp_delta = 0
            /\ llm_data.status_changes.user.gold_delta = 0
            /\ llm_data.status_changes.user.items_add = <<>>
            /\ llm_data.status_changes.user.items_remove = <<>>
            /\ llm_data.status_changes.characters = <<>>
            /\ llm_data.updated_combat = "None"

\* the fallback ran on a text that, stripped, is longer than 400 characters
\* and had white space around it
C15_Witness ==
    /\ stage = "done"
    /\ trail = <<"direct", "extract", "fallback">>
    /\ Len(Strip(raw_text)) > 400
    /\ Strip(raw_text) # raw_text
    /\ Len(llm_data.narration) = 403

(***************************************************************************)
(* C16: for a document J of the schema, wrapped in a code fence with or    *)
(* without a language tag, with or without a newline after the tag, or     *)
(* surrounded by prose without braces, the parse ends with the value of J  *)
(* and the fallback does not run.                                          *)
(***************************************************************************)
C16_ExtractRecoversDocument ==
    \A w \in FencedOrProse :
        \A d \in {i \in 1..Len(Docs) : Docs[i].valid} :
            (stage = "done" /\ raw_text = wrapped(w, d)) =>
                /\ llm_data = GameTurnLLMResponse(Docs[d].narration, Docs[d].hp_delta)
                /\ trail = <<"direct", "extract">>

(***************************************************************************)
(* _invoke_llm_with_timeout (apps/api/routes/app_chat.py, lines 285-308)   *)
(* and the event loop it awaits on.  llm.invoke runs in a worker thread,   *)
(* which a timeout does not stop; the awaiting coroutine is resumed by the *)
(* loop, and the loop resumes nothing while a handler runs a synchronous   *)
(* call on it: chat calls polish, a blocking HTTP request, at lines 426    *)
(* and 431.                                                                *)
(***************************************************************************)
\* the models a request may name, lines 348-349
Models == {"trpg-gen", "trpg-polish"}

\* seconds past the timeout that the loop is followed while it is blocked
MaxOverrun == 3

\* line 296: the complete return value of llm.invoke
response == [kind |-> "response", status |-> 200, detail |-> "complete", model |-> "none"]

\* lines 297-308: the HTTPException raised for the exception caught; the
\* details are the two literals of the code, neither interpolates the model
raised(exc, timeout) ==
    IF exc = "TimeoutError"
    THEN [kind |-> "HTTPException", status |-> 500,
          detail |-> "LLM overall processing time exceeded timeout seconds",
          model |-> "none"]
    ELSE [kind |-> "HTTPException", status |-> 500,
          detail |-> "internal error during LLM processing", model |-> "none"]

\* lines 292-295: the thread is started and the coroutine awaits the future
Invoke ==
    /\ call = "idle"
    /\ \E m \in Models : oracle' = [did |-> "running", model |-> m, error |-> "none"]
    /\ call' = "waiting"
    /\ elapsed' = 0
    /\ UNCHANGED <<loop_busy, surfaced, invokeFrame>>

\* the thread: llm.invoke returns, whether or not anyone still waits
OracleReturns ==
    /\ oracle.did = "running"
    /\ oracle' = [oracle EXCEPT !.did = "returned"]
    /\ UNCHANGED <<call, elapsed, loop_busy, surfaced, invokeFrame>>

\* the thread: llm.invoke raises, for a model the server does not have or
\* for any other reason
OracleRaises ==
    /\ oracle.did = "running"
    /\ \E e \in {"model_not_found", "other"} :
        oracle' = [oracle EXCEPT !.did = "raised", !.error = e]
    /\ UNCHANGED <<call, elapsed, loop_busy, surfaced, invokeFrame>>

\* a second passes; a free loop runs the timer of wait_for when it is due
Second ==
    /\ call = "waiting"
    /\ elapsed < LLM_TIMEOUT + MaxOverrun
    /\ loop_busy \/ elapsed < LLM_TIMEOUT
    /\ elapsed' = elapsed + 1
    /\ UNCHANGED <<call, oracle, loop_busy, surfaced, invokeFrame>>

\* chat, lines 426 and 431: the handler of another request calls polish on
\* the loop's thread
LoopBlocks ==
    /\ call = "waiting"
    /\ ~loop_busy
    /\ loop_busy' = TRUE
    /\ UNCHANGED <<call, elapsed, oracle, surfaced, invokeFrame>>

\* that call of polish returns
LoopFrees ==
    /\ loop_busy
    /\ loop_busy' = FALSE
    /\ UNCHANGED <<call, elapsed, oracle, surfaced, invokeFrame>>

\* line 296: the future is done with a result when the loop resumes the wait
Return ==
    /\ call = "waiting" /\ ~loop_busy
    /\ oracle.did = "returned"
    /\ surfaced' = response
    /\ call' = "ended"
    /\ UNCHANGED <<elapsed, oracle, loop_busy, invokeFrame>>

\* lines 303-308: the future is done with an exception
Fail ==
    /\ call = "waiting" /\ ~loop_busy
    /\ oracle.did = "raised"
    /\ surfaced' = raised(oracle.error, LLM_TIMEOUT)
    /\ call' = "ended"
    /\ UNCHANGED <<elapsed, oracle, loop_busy, invokeFrame>>

\* lines 297-302: the timer of wait_for ran; a future that became done
\* while the loop was blocked may be taken first (Return, Fail)
Expire ==
    /\ call = "waiting" /\ ~loop_busy
    /\ elapsed >= LLM_TIMEOUT
    /\ surfaced' = raised("TimeoutError", LLM_TIMEOUT)
    /\ call' = "ended"
    /\ UNCHANGED <<elapsed, oracle, loop_busy, invokeFrame>>

InvokeNext ==
    \/ Invoke \/ OracleReturns \/ OracleRaises \/ Second
    \/ LoopBlocks \/ LoopFrees \/ Return \/ Fail \/ Expire

InitInvoke == FmtIdle /\ StoreInit /\ ParseIdle /\ InvokeIdle /\ StageIdle /\ LaterIdle

SpecInvoke == InitInvoke /\ [][InvokeNext]_vars

(***************************************************************************)
(* C17: every call of _invoke_llm_with_timeout ends within the configured  *)
(* overall timeout in one of three ways: the complete response, a timeout  *)
(* failure, or a non-timeout invocation failure; the request is never left *)
(* waiting after the timeout, and the caller can tell the timeout failure  *)
(* from the other failure.                                                 *)
(***************************************************************************)
C17_EndsWithinTimeout ==
    /\ call = "waiting" => elapsed <= LLM_TIMEOUT
    /\ call = "ended" =>
        /\ elapsed <= LLM_TIMEOUT
        /\ surfaced \in {response, raised("TimeoutError", LLM_TIMEOUT),
                         raised("other", LLM_TIMEOUT)}
    /\ surfaced = raised("TimeoutError", LLM_TIMEOUT) =>
        call = "ended" /\ elapsed >= LLM_TIMEOUT
    /\ raised("TimeoutError", LLM_TIMEOUT) # raised("other", LLM_TIMEOUT)

\* what does hold: an ended call has one of the three outcomes, the two
\* failures differ in detail, a response is surfaced only when llm.invoke
\* returned and a timeout only from the timeout on
C17_OutcomesOnly ==
    /\ call = "ended" =>
        surfaced \in {response, raised("TimeoutError", LLM_TIMEOUT),
                      raised("other", LLM_TIMEOUT)}
    /\ call # "ended" => surfaced.kind = "none"
    /\ surfaced = response => oracle.did = "returned"
    /\ surfaced = raised("other", LLM_TIMEOUT) => oracle.did = "raised"
    /\ surfaced = raised("TimeoutError", LLM_TIMEOUT) => elapsed >= LLM_TIMEOUT
    /\ raised("TimeoutError", LLM_TIMEOUT) # raised("other", LLM_TIMEOUT)

\* a call that is still waiting, or ends, after the timeout has passed
C17_LateWitness ==
    /\ elapsed > LLM_TIMEOUT
    /\ call = "ended"
    /\ surfaced = raised("TimeoutError", LLM_TIMEOUT)

(***************************************************************************)
(* C18: when llm.invoke fails because the requested model does not exist,  *)
(* the failure surfaced to the caller differs from the one surfaced for    *)
(* any other invocation error, and its message names the missing model.    *)
(***************************************************************************)
C18_ModelNotFoundIsDistinct ==
    (/\ call = "ended"
     /\ oracle.did = "raised" /\ oracle.error = "model_not_found"
     /\ surfaced # response
     /\ surfaced # raised("TimeoutError", LLM_TIMEOUT))
    => /\ surfaced # raised("other", LLM_TIMEOUT)
       /\ surfaced.model = oracle.model

\* the call failed for a missing model and the failure was surfaced
C18_NotFoundSurfaced ==
    /\ call = "ended"
    /\ oracle.did = "raised" /\ oracle.error = "model_not_found"
    /\ surfaced = raised("model_not_found", LLM_TIMEOUT)

(***************************************************************************)
(* The best-effort stages of a chat turn: retrieve_context (lines 94-107)  *)
(* and polish (lines 255-283) of apps/api/routes/app_chat.py, and          *)
(* polish_trpg_keep_choices (lines 230-246) of app_chat.py.  A stage       *)
(* returns a text or lets an exception out; the turn goes on with the      *)
(* text and fails with the exception.                                      *)
(***************************************************************************)
\* what embed, QdrantClient.query_points and the payloads may do
Retrievals ==
    [embed : {"ok", "raises"}, query : {"ok", "raises"},
     chunks : {<<>>, <<Scenes[1]>>, <<Scenes[1], <<>>, Scenes[9]>>}]

\* lines 94-107
retrieve_context(r) ==
    IF r.embed = "raises" \/ r.query = "raises"
    THEN [exc |-> "none", text |-> <<>>]
    ELSE [exc |-> "none",
          text |-> Join(SelectSeq(r.chunks, LAMBDA c : c # <<>>), <<10, 10>>)]

\* a polish without the except clause of lines 281-283
polish_propagates(txt, r) ==
    IF r.exc # "none" THEN [exc |-> r.exc, text |-> <<>>]
    ELSE [exc |-> "none", text |-> cosmetic(IF r.content = <<>> THEN txt ELSE r.content)]

\* lines 255-283: the whole text goes into the prompt (line 270); r is what
\* polisher.invoke did
polish(txt, r) ==
    IF r.exc # "none" THEN [exc |-> "none", text |-> txt]
    ELSE [exc |-> "none", text |-> cosmetic(IF r.content = <<>> THEN txt ELSE r.content)]

\* from the choices header to the end of the text, empty without a header
choices_block(t) ==
    LET h == Find(t, HEADER, 1)
    IN  IF h = 0 THEN <<>> ELSE SubSeq(t, h, Len(t))

\* app_chat.py, line 232: where re.split cuts, the header or the line
\* break right before it
tail_start(t) ==
    LET h == Find(t, HEADER, 1)
    IN  IF h = 0 THEN Len(t) + 1
        ELSE IF h > 1 /\ t[h - 1] = 10 THEN h - 1 ELSE h

\* app_chat.py, lines 232-246: head_polished is the head once polished,
\* filtered, de-bulleted and padded (lines 235-245)
polish_trpg_keep_choices(t, head_polished) ==
    LET kept == SubSeq(t, tail_start(t), Len(t))
    IN  Strip(RStrip(head_polished)
              \o (IF kept # <<>> THEN <<10, 10>> \o LStrip(kept) ELSE <<>>))

\* texts postprocess_trpg returns: a scene, the header and two or three
\* choices
NormalizedTexts ==
    {postprocess_with(Scenes[i] \o Blocks[j], n, <<1, 2>>) :
        i \in {2, 9}, j \in {2, 4}, n \in {2, 3}}

\* a scene as the polisher may word it; a choices block of its own making
PolishedScene == <<45208, 45796, 46, 32, 44032, 45796, 46, 32, 46972, 45796, 46, 32, 47560, 45796, 46>>

OwnBlock == HEADER \o <<10, 45, 32, 48372, 51088>>

\* what polisher.invoke may do with the prompt carrying t: raise, return
\* nothing, a scene alone, a scene and the choices of t, a scene and
\* choices of its own
PolisherReplies(t) ==
    {[exc |-> "ReadTimeout", content |-> <<>>],
     [exc |-> "none", content |-> <<>>],
     [exc |-> "none", content |-> PolishedScene],
     [exc |-> "none", content |-> PolishedScene \o <<10, 10>> \o choices_block(t)],
     [exc |-> "none", content |-> PolishedScene \o <<10, 10>> \o OwnBlock]}

\* the heads lines 235-245 of app_chat.py may end with: bullet lines are
\* turned into sentences there, a header line of the polisher's is not
PolishedHeads ==
    {PolishedScene, PolishedScene \o <<10>>, PolishedScene \o <<10>> \o HEADER}

\* app_chat.py, lines 347-349: the texts its postprocess_trpg returns, the
\* scene, an empty line, the header and the "- " lines
LegacyNormalizedTexts ==
    {Scenes[i] \o <<10, 10>> \o HEADER \o b :
        i \in {2, 9},
        b \in {<<10, 45, 32, 44032, 51088, 10, 45, 32, 49772, 51088>>,
               <<10, 45, 32, 44032, 51088, 10, 45, 32, 49772, 51088, 10, 45, 32, 48372, 51088>>}}

InitStages ==
    /\ FmtIdle /\ StoreInit /\ ParseIdle /\ InvokeIdle /\ LaterIdle
    /\ step = "retrieve"
    /\ normalized \in NormalizedTexts \cup LegacyNormalizedTexts
    /\ retrieval = "none"
    /\ context = <<>>
    /\ polisher = [exc |-> "none", text |-> <<>>]
    /\ answer = <<>>

\* context = retrieve_context(q)
Retrieve ==
    /\ step = "retrieve"
    /\ \E r \in Retrievals :
        LET res == retrieve_context(r)
        IN  /\ retrieval' = IF r.embed = "raises" THEN "embed_raised"
                            ELSE IF r.query = "raises" THEN "query_raised" ELSE "ok"
            /\ context' = res.text
            /\ step' = IF res.exc = "none" THEN "polish" ELSE "failed"
    /\ UNCHANGED <<normalized, polisher, answer, stageFrame>>

\* chat, lines 425-426: text = polish(text, model=polish_model)
Polish ==
    /\ step = "polish"
    /\ normalized \in NormalizedTexts
    /\ \E r \in PolisherReplies(normalized) :
        LET res == polish(normalized, r)
        IN  /\ polisher' = [exc |-> r.exc, text |-> r.content]
            /\ answer' = res.text
            /\ step' = IF res.exc = "none" THEN "done" ELSE "failed"
    /\ UNCHANGED <<normalized, retrieval, context, stageFrame>>

\* app_chat.py, line 461: text = polish_trpg_keep_choices(text, ...)
PolishKeepChoices ==
    /\ step = "polish"
    /\ normalized \in LegacyNormalizedTexts
    /\ \E h \in PolishedHeads :
        /\ polisher' = [exc |-> "none", text |-> h]
        /\ answer' = polish_trpg_keep_choices(normalized, h)
    /\ step' = "done_keep"
    /\ UNCHANGED <<normalized, retrieval, context, stageFrame>>

StagesNext == Retrieve \/ Polish \/ PolishKeepChoices

SpecStages == InitStages /\ [][StagesNext]_vars

(***************************************************************************)
(* C19: a failure inside a best-effort stage never fails the turn: when    *)
(* the embedding or the vector query raises, retrieve_context returns the  *)
(* empty string and the turn goes on; when the polisher's call raises,     *)
(* polish returns its input unchanged and the turn goes on with it.        *)
(***************************************************************************)
C19_BestEffortStagesAbsorb ==
    /\ step # "failed"
    /\ retrieval \in {"embed_raised", "query_raised"} =>
        context = <<>> /\ step \in {"polish", "done", "done_keep"}
    /\ (step = "done" /\ polisher.exc # "none") => answer = normalized

\* the retrieval raised and then the polisher raised, and the turn is done
C19_Witness ==
    /\ step = "done"
    /\ retrieval \in {"embed_raised", "query_raised"}
    /\ polisher.exc # "none"
    /\ answer = normalized /\ answer # <<>>

(***************************************************************************)
(* C20: for every normalized text made of a scene and a choices block and  *)
(* every text the polisher may return, the polished text ends with the     *)
(* same choices block, character for character: the number and the text    *)
(* of the choices after polishing are those before it.                     *)
(***************************************************************************)
C20_PolishKeepsChoicesBlock ==
    step = "done" =>
        /\ IsSuffix(choices_block(normalized), answer)
        /\ choice_lines(answer) = choice_lines(normalized)

\* the same for polish_trpg_keep_choices of app_chat.py, which cuts the
\* text at the header and polishes the head alone
C20_KeepChoicesKeepsBlock ==
    step = "done_keep" =>
        /\ IsSuffix(choices_block(normalized), answer)
        /\ choice_lines(answer) = choice_lines(normalized)

\* polish returned a text that has lost the choices of its input
C20_ChoicesLost ==
    /\ step = "done"
    /\ polisher.exc = "none"
    /\ choice_lines(normalized) # <<>>
    /\ choice_lines(answer) = <<>>

(***************************************************************************)
(* C25: the structured parse runs AttemptDirectParse, then                 *)
(* AttemptExtractAndParse, then FallbackWrap, each at most once and in     *)
(* this order, and a stage that succeeds ends the parse: a direct parse    *)
(* that succeeds is the result, extraction runs only after the direct      *)
(* parse failed, the fallback is built only after both failed, and a       *)
(* parse that has not ended is at a stage that can run.                    *)
(***************************************************************************)
C25_ThreeStageMachine ==
    LET direct  == model_validate_json(raw_text)
        e       == extract_json(raw_text)
        second  == IF e.exc # "none" THEN [exc |-> e.exc, value |-> llm_data]
                   ELSE model_validate_json(e.text)
        order   == <<"direct", "extract", "fallback">>
    IN  /\ Len(trail) <= 3
        /\ \A i \in 1..Len(trail) : trail[i] = order[i]
        /\ stage \in {"direct", "extract", "fallback", "done"}
        /\ stage = "direct" <=> trail = <<>>
        /\ stage = "extract" => trail = <<"direct">> /\ direct.exc # "none"
        /\ stage = "fallback" =>
               trail = <<"direct", "extract">> /\ direct.exc # "none" /\ second.exc # "none"
        /\ stage = "done" =>
               /\ Len(trail) = 1 <=> direct.exc = "none"
               /\ Len(trail) = 1 => llm_data = direct.value
               /\ Len(trail) = 2 <=> (direct.exc # "none" /\ second.exc = "none")
               /\ Len(trail) = 2 => llm_data = second.value
               /\ Len(trail) = 3 => llm_data = build_fallback_llm_response(raw_text)

\* the direct parse failed and the parse of the extracted text ended it
C25_Witness ==
    /\ stage = "done"
    /\ trail = <<"direct", "extract">>
    /\ model_validate_json(raw_text).exc # "none"
    /\ llm_data = model_validate_json(extract_json(raw_text).text).value

(***************************************************************************)
(* build_messages (apps/api/routes/app_chat.py, lines 146-164), called     *)
(* with histories shorter and longer than the window of its mode.          *)
(***************************************************************************)
\* the longest history handed in, in messages
MaxHistory == 8

\* the first n messages of a dialogue: user and assistant in turn
dialogue(n) == [i \in 1..n |-> [role |-> IF i % 2 = 1 THEN "user" ELSE "assistant", content |-> i]]

\* lines 148-158: the system prompt, as the list of its parts; an empty
\* string adds no part
sys_prompt_of(mode, context_, char_ctx, char_rules, choices_) ==
    <<IF mode = "trpg" THEN (IF choices_ > 0 THEN "SYS_TRPG" ELSE "SYS_TRPG_NOCHOICE")
      ELSE "SYS_QA">>
    \o (IF mode = "trpg" /\ char_ctx # 0 THEN <<<<"profile", char_ctx>>>> ELSE <<>>)
    \o (IF mode = "trpg" /\ char_rules # 0 THEN <<<<"rules", char_rules>>>> ELSE <<>>)
    \o (IF context_ # 0 THEN <<<<"context", context_>>>> ELSE <<>>)

\* a build_messages that takes the oldest entries, history[:keep]
build_messages_head(mode, history, user_msg, context_, char_ctx, char_rules, choices_) ==
    [msgs |-> <<[role |-> "system",
                 content |-> sys_prompt_of(mode, context_, char_ctx, char_rules, choices_)]>>
              \o Take(history, keep_of(mode))
              \o <<[role |-> "user", content |-> user_msg]>>,
     history |-> history]

\* lines 146-164: the list returned and the list passed in, which
\* msgs.extend(history[-keep:]) reads and leaves as it is
build_messages(mode, history, user_msg, context_, char_ctx, char_rules, choices_) ==
    [msgs |-> <<[role |-> "system",
                 content |-> sys_prompt_of(mode, context_, char_ctx, char_rules, choices_)]>>
              \o LastK(history, keep_of(mode))
              \o <<[role |-> "user", content |-> user_msg]>>,
     history |-> history]

InitMessages ==
    /\ FmtIdle /\ StoreInit /\ ParseIdle /\ InvokeIdle /\ StageIdle /\ MsgOthersIdle
    /\ m_mode \in Modes
    /\ m_history \in {dialogue(n) : n \in 0..MaxHistory}
    /\ m_user_msg \in {101, 102}
    /\ m_extras \in [context : {0, 7}, char_ctx : {0, 8}, char_rules : {0, 9}, choices : {0, 2}]
    /\ msgs = <<>>
    /\ m_history_after = <<>>

\* chat, lines 401-409
BuildMessages ==
    /\ msgs = <<>>
    /\ LET r == build_messages(m_mode, m_history, m_user_msg, m_extras.context,
                               m_extras.char_ctx, m_extras.char_rules, m_extras.choices)
       IN  /\ msgs' = r.msgs
           /\ m_history_after' = r.history
    /\ UNCHANGED <<m_mode, m_history, m_user_msg, m_extras, msgFrame>>

MessagesNext == BuildMessages

SpecMessages == InitMessages /\ [][MessagesNext]_vars

(***************************************************************************)
(* C26: for every mode, history and user message, build_messages returns   *)
(* the one system message first, then the last                             *)
(* min(len(history), 2 * max_turns of the mode) messages of the history    *)
(* in their order, then one user message with the new text as the last     *)
(* element; the history passed in is left as it was.                       *)
(***************************************************************************)
C26_MessagesShape ==
    msgs # <<>> =>
        LET n    == Len(m_history)
            k    == Min({n, 2 * (IF m_mode = "trpg" THEN MAX_TURNS_TRPG ELSE MAX_TURNS_QA)})
        IN  /\ Len(msgs) = k + 2
            /\ msgs[1].role = "system"
            /\ \A i \in 2..Len(msgs) : msgs[i].role # "system"
            /\ \A i \in 1..k : msgs[1 + i] = m_history[n - k + i]
            /\ msgs[Len(msgs)] = [role |-> "user", content |-> m_user_msg]
            /\ m_history_after = m_history

\* a history longer than the window was cut to its last messages
C26_Witness ==
    /\ msgs # <<>>
    /\ Len(m_history) = MaxHistory
    /\ Len(msgs) = 2 * MAX_TURNS_TRPG + 2
    /\ msgs[2] = m_history[MaxHistory - 2 * MAX_TURNS_TRPG + 1]
    /\ m_history_after = m_history

(***************************************************************************)
(* Lines 467-469 of app_chat.py in two threads.  chat is a plain def, so   *)
(* the server runs each call in a thread of its pool; the two statements   *)
(* are a read of sess[key], list.extend on the object read, a second read  *)
(* of sess[key], the slice of the object read and the store of the new     *)
(* list under sess[key], and the threads may be switched between any two   *)
(* of these.                                                               *)
(***************************************************************************)
Threads == {1, 2}

\* the two messages the call of thread t appends
pair_of(t) == turn_of(100 + t)

RaceInit ==
    /\ FmtIdle /\ StoreInit /\ ParseIdle /\ InvokeIdle /\ StageIdle /\ RaceOthersIdle
    /\ h0 \in {dialogue(0), dialogue(2), dialogue(2 * LEGACY_MAX_TURNS)}
    /\ heap = <<h0>>
    /\ sess_key = 1
    /\ t_pc = [t \in Threads |-> "start"]
    /\ t_ref = [t \in Threads |-> 0]
    /\ t_new = [t \in Threads |-> <<>>]
    /\ overlapped = FALSE

\* the other call has begun lines 467-469 and not ended them
Amid(t) == \E u \in Threads \ {t} : t_pc[u] \notin {"start", "done"}

\* line 467: sess[key] is read
LoadForExtend ==
    /\ \E t \in Threads :
        /\ t_pc[t] = "start"
        /\ t_ref' = [t_ref EXCEPT ![t] = sess_key]
        /\ t_pc' = [t_pc EXCEPT ![t] = "extend"]
        /\ overlapped' = (overlapped \/ Amid(t))
    /\ UNCHANGED <<heap, sess_key, t_new, h0, raceFrame>>

\* lines 467-468: .extend([...]) on the object read
Extend ==
    /\ \E t \in Threads :
        /\ t_pc[t] = "extend"
        /\ heap' = [heap EXCEPT ![t_ref[t]] = @ \o pair_of(t)]
        /\ t_pc' = [t_pc EXCEPT ![t] = "load"]
        /\ overlapped' = (overlapped \/ Amid(t))
    /\ UNCHANGED <<sess_key, t_ref, t_new, h0, raceFrame>>

\* line 469, right-hand side: sess[key] is read again
LoadForSlice ==
    /\ \E t \in Threads :
        /\ t_pc[t] = "load"
        /\ t_ref' = [t_ref EXCEPT ![t] = sess_key]
        /\ t_pc' = [t_pc EXCEPT ![t] = "slice"]
        /\ overlapped' = (overlapped \/ Amid(t))
    /\ UNCHANGED <<heap, sess_key, t_new, h0, raceFrame>>

\* line 469, right-hand side: [-MAX_TURNS*2:] builds a new list
Slice ==
    /\ \E t \in Threads :
        /\ t_pc[t] = "slice"
        /\ t_new' = [t_new EXCEPT ![t] = legacy_window(heap[t_ref[t]])]
        /\ t_pc' = [t_pc EXCEPT ![t] = "store"]
        /\ overlapped' = (overlapped \/ Amid(t))
    /\ UNCHANGED <<heap, sess_key, t_ref, h0, raceFrame>>

\* line 469: sess[key] = the new list
StoreSlice ==
    /\ \E t \in Threads :
        /\ t_pc[t] = "store"
        /\ heap' = Append(heap, t_new[t])
        /\ sess_key' = Len(heap) + 1
        /\ t_pc' = [t_pc EXCEPT ![t] = "done"]
        /\ overlapped' = (overlapped \/ Amid(t))
    /\ UNCHANGED <<t_ref, t_new, h0, raceFrame>>

RaceNext == LoadForExtend \/ Extend \/ LoadForSlice \/ Slice \/ StoreSlice

SpecRace == RaceInit /\ [][RaceNext]_vars

\* both calls have returned
BothDone == \A t \in Threads : t_pc[t] = "done"

(***************************************************************************)
(* C27: two chat requests on the same history key that run concurrently    *)
(* can interleave their read-modify-write of the list so that a lost       *)
(* update is reachable (C27_LostUpdate): both completed, the window is not *)
(* full, and the pair one of them appended is missing.  The loss comes     *)
(* from the interleaving alone: two calls that did not overlap leave the   *)
(* window of the old history followed by both pairs.                       *)
(***************************************************************************)
C27_LossOnlyByInterleaving ==
    BothDone =>
        /\ Len(heap[sess_key]) <= 2 * LEGACY_MAX_TURNS
        /\ ~overlapped =>
               \E t \in Threads, u \in Threads :
                   /\ t # u
                   /\ heap[sess_key] = LastK(h0 \o pair_of(t) \o pair_of(u), 2 * LEGACY_MAX_TURNS)

\* both calls completed, the window is not full, and the pair of one call
\* is stored while the pair of the other is not
C27_LostUpdate ==
    /\ BothDone
    /\ Len(heap[sess_key]) < 2 * LEGACY_MAX_TURNS
    /\ \E t \in Threads, u \in Threads :
        /\ t # u
        /\ Contains(heap[sess_key], pair_of(t))
        /\ ~Contains(heap[sess_key], <<pair_of(u)[1]>>)
        /\ ~Contains(heap[sess_key], <<pair_of(u)[2]>>)

(***************************************************************************)
(* SendMessageUseCase.execute (src/usecases/chat/send_message.py) on       *)
(* MongoChatRepository (adapters/persistence/mongo/                        *)
(* chat_repository_adapter.py).  Every call of the database is one step;   *)
(* two runs of execute, each in a thread of the server's pool, take their  *)
(* steps in any order.  A session is named by its user, the chat type and  *)
(* the entity being the same for all.                                      *)
(***************************************************************************)
Runs == {1, 2}

Users == {"u1", "u2"}

\* request_id: absent, or one of two keys
RequestIds == {"none", "k1", "k2"}

\* ensure_indexes, lines 270-274: the index on (session_id, request_id) is
\* created without unique=True
INDEX_IS_UNIQUE == FALSE

\* find_one({"session_id": ..., "request_id": ...}): the position of the
\* first such message, 0 when there is none
find_one(col, session_id, request_id) ==
    LET hits == {i \in 1..Len(col) :
                    col[i].session_id = session_id /\ col[i].request_id = request_id}
    IN  IF hits = {} THEN 0 ELSE Min(hits)

\* insert_one raises DuplicateKeyError only under a unique index
insert_raises(col, doc) ==
    /\ INDEX_IS_UNIQUE
    /\ doc.request_id # "none"
    /\ find_one(col, doc.session_id, doc.request_id) # 0

\* lines 171-180: the document of a message
message_doc(session_id, role, content_, request_id) ==
    [session_id |-> session_id, role |-> role, content |-> content_,
     request_id |-> request_id]

\* an except clause that takes no exception
absorbs_nothing(outcome) == FALSE

\* lines 101-105: except Exception takes what generate_reply raised
absorbs(outcome) == outcome = "raised"

\* the other runs on the session of r that have set busy and not yet idle
InFlight(r) ==
    {q \in Runs \ {r} :
        e_args[q].user = e_args[r].user /\ e_pc[q] \in {"generate", "assistant", "idle"}}

SendInit ==
    /\ FmtIdle /\ StoreInit /\ ParseIdle /\ InvokeIdle /\ StageIdle /\ SendOthersIdle
    /\ chat_session = [u \in {} |-> 0]
    /\ chat_message = <<>>
    /\ chat_event = <<>>
    /\ e_pc = [r \in Runs |-> "upsert"]
    /\ e_args \in [Runs -> [user : Users, request_id : RequestIds]]
    /\ e_user_msg = [r \in Runs |-> 0]
    /\ e_reply = [r \in Runs |-> "none"]

\* execute, lines 47-52; upsert_session, lines 47-88
UpsertSession ==
    /\ \E r \in Runs :
        /\ e_pc[r] = "upsert"
        /\ chat_session' =
               IF e_args[r].user \in DOMAIN chat_session THEN chat_session
               ELSE [u \in DOMAIN chat_session \cup {e_args[r].user} |->
                        IF u = e_args[r].user THEN [status |-> "none", state_version |-> 0]
                        ELSE chat_session[u]]
        /\ e_pc' = [e_pc EXCEPT ![r] = "find"]
    /\ UNCHANGED <<chat_message, chat_event, e_args, e_user_msg, e_reply, sendFrame>>

\* insert_message, lines 159-169: the look-up by request_id
FindMessage ==
    /\ \E r \in Runs :
        /\ e_pc[r] = "find"
        /\ LET hit == IF e_args[r].request_id = "none" THEN 0
                      ELSE find_one(chat_message, e_args[r].user, e_args[r].request_id)
           IN  /\ e_user_msg' = [e_user_msg EXCEPT ![r] = hit]
               /\ e_pc' = [e_pc EXCEPT ![r] = IF hit # 0 THEN "busy" ELSE "insert"]
    /\ UNCHANGED <<chat_session, chat_message, chat_event, e_args, e_reply, sendFrame>>

\* insert_message, lines 171-203: insert_one, and the look-up of the
\* except clause when it raised
InsertUserMessage ==
    /\ \E r \in Runs :
        /\ e_pc[r] = "insert"
        /\ LET doc == message_doc(e_args[r].user, "user", r, e_args[r].request_id)
           IN  IF insert_raises(chat_message, doc)
               THEN /\ e_user_msg' = [e_user_msg EXCEPT ![r] =
                            find_one(chat_message, doc.session_id, doc.request_id)]
                    /\ UNCHANGED chat_message
               ELSE /\ chat_message' = Append(chat_message, doc)
                    /\ e_user_msg' = [e_user_msg EXCEPT ![r] = Len(chat_message) + 1]
        /\ e_pc' = [e_pc EXCEPT ![r] = "busy"]
    /\ UNCHANGED <<chat_session, chat_event, e_args, e_reply, sendFrame>>

\* execute, lines 66-86: update_session to busy and the event of it
SetBusy ==
    /\ \E r \in Runs :
        /\ e_pc[r] = "busy"
        /\ chat_session' = [chat_session EXCEPT ![e_args[r].user] =
               [status |-> "busy", state_version |-> @.state_version + 1]]
        /\ chat_event' = Append(chat_event, [run |-> r, status |-> "busy"])
        /\ e_pc' = [e_pc EXCEPT ![r] = "generate"]
    /\ UNCHANGED <<chat_message, e_args, e_user_msg, e_reply, sendFrame>>

\* execute, lines 90-105: list_messages and generate_reply, which returns
\* or raises
GenerateReply ==
    /\ \E r \in Runs, outcome \in {"returned", "raised"} :
        /\ e_pc[r] = "generate"
        /\ e_reply' = [e_reply EXCEPT ![r] = IF outcome = "raised" THEN "error_text" ELSE "reply"]
        /\ e_pc' = [e_pc EXCEPT ![r] =
               IF outcome = "returned" \/ absorbs(outcome) THEN "assistant" ELSE "raised"]
    /\ UNCHANGED <<chat_session, chat_message, chat_event, e_args, e_user_msg, sendFrame>>

\* execute, lines 108-113: the assistant message, with no request_id
InsertAssistantMessage ==
    /\ \E r \in Runs :
        /\ e_pc[r] = "assistant"
        /\ chat_message' = Append(chat_message,
               message_doc(e_args[r].user, "assistant", <<r, e_reply[r]>>, "none"))
        /\ e_pc' = [e_pc EXCEPT ![r] = "idle"]
    /\ UNCHANGED <<chat_session, chat_event, e_args, e_user_msg, e_reply, sendFrame>>

\* execute, lines 116-136: update_session to idle and the event of it
SetIdle ==
    /\ \E r \in Runs :
        /\ e_pc[r] = "idle"
        /\ chat_session' = [chat_session EXCEPT ![e_args[r].user] =
               [status |-> "idle", state_version |-> @.state_version + 1]]
        /\ chat_event' = Append(chat_event, [run |-> r, status |-> "idle"])
        /\ e_pc' = [e_pc EXCEPT ![r] = "return"]
    /\ UNCHANGED <<chat_message, e_args, e_user_msg, e_reply, sendFrame>>

\* execute, lines 139-142
ReturnResult ==
    /\ \E r \in Runs :
        /\ e_pc[r] = "return"
        /\ e_pc' = [e_pc EXCEPT ![r] = "returned"]
    /\ UNCHANGED <<chat_session, chat_message, chat_event, e_args, e_user_msg, e_reply, sendFrame>>

SendNext ==
    \/ UpsertSession \/ FindMessage \/ InsertUserMessage \/ SetBusy
    \/ GenerateReply \/ InsertAssistantMessage \/ SetIdle \/ ReturnResult

SpecSend == SendInit /\ [][SendNext]_vars

(***************************************************************************)
(* C21: for every session and every request_id, after any interleaving of  *)
(* insert_message calls carrying that key, the message collection holds at *)
(* most one message with that (session_id, request_id), and a call that    *)
(* found the key returns the stored record.                                *)
(***************************************************************************)
C21_AtMostOnePerKey ==
    \A u \in Users, k \in RequestIds \ {"none"} :
        Cardinality({i \in 1..Len(chat_message) :
                        chat_message[i].session_id = u /\ chat_message[i].request_id = k}) <= 1

\* two runs carrying the same key on the same session each stored a message
C21_Duplicate ==
    /\ e_args[1] = e_args[2]
    /\ e_args[1].request_id # "none"
    /\ e_user_msg[1] # 0 /\ e_user_msg[2] # 0 /\ e_user_msg[1] # e_user_msg[2]

\* what does hold: a call that runs after a message with its key was
\* stored returns that message and stores none
C21_SequentialDuplicateReturnsStored ==
    \A r \in Runs :
        (e_pc[r] \notin {"upsert", "find", "insert"} /\ e_args[r].request_id # "none") =>
            /\ e_user_msg[r] # 0
            /\ chat_message[e_user_msg[r]].session_id = e_args[r].user
            /\ chat_message[e_user_msg[r]].request_id = e_args[r].request_id

\* the position of the status event of run r in chat_event, 0 when the run
\* has not written it
event_at(r, status) ==
    LET hits == {i \in 1..Len(chat_event) : chat_event[i] = [run |-> r, status |-> status]}
    IN  IF hits = {} THEN 0 ELSE Min(hits)

\* the assistant message of run r is in the collection
AssistantStored(r) ==
    \E i \in 1..Len(chat_message) :
        chat_message[i] = message_doc(e_args[r].user, "assistant", <<r, e_reply[r]>>, "none")

\* the order of the steps of every run: busy after the user message and
\* before the LLM call, idle after the assistant message and after busy; no
\* run ends by an exception of the LLM; a run that has returned has set idle,
\* and the status is idle when no other run on the session is past its busy
C28_BusyThenIdle ==
    \A r \in Runs :
        /\ e_pc[r] # "raised"
        /\ event_at(r, "busy") # 0 => e_user_msg[r] # 0
        /\ e_reply[r] # "none" => event_at(r, "busy") # 0
        /\ event_at(r, "idle") # 0 =>
               /\ AssistantStored(r)
               /\ e_reply[r] # "none"
               /\ event_at(r, "busy") # 0 /\ event_at(r, "busy") < event_at(r, "idle")
        /\ e_pc[r] = "returned" =>
               /\ event_at(r, "idle") # 0
               /\ InFlight(r) = {} => chat_session[e_args[r].user].status = "idle"

\* a run whose LLM call raised has returned: the error text is stored and
\* the session is idle
C28_Witness ==
    \E r \in Runs :
        /\ e_pc[r] = "returned"
        /\ e_reply[r] = "error_text"
        /\ AssistantStored(r)
        /\ InFlight(r) = {}
        /\ chat_session[e_args[r].user].status = "idle"

\* a run has returned while another run on its session keeps it busy
C28_ReturnedWhileBusy ==
    \E r \in Runs :
        /\ e_pc[r] = "returned"
        /\ InFlight(r) # {}
        /\ chat_session[e_args[r].user].status = "busy"

\* chat_v2.send_message, lines 96-146: an async handler that calls execute
\* without awaiting anything, so the event loop runs one execute to its end
\* before it starts the next: at most one run is between its first and its
\* last step
OneAtATime ==
    Cardinality({r \in Runs : e_pc[r] \notin {"upsert", "returned", "raised"}}) <= 1

SendSerialNext ==
    \/ UpsertSession /\ OneAtATime'
    \/ FindMessage /\ OneAtATime'
    \/ InsertUserMessage /\ OneAtATime'
    \/ SetBusy /\ OneAtATime'
    \/ GenerateReply /\ OneAtATime'
    \/ InsertAssistantMessage /\ OneAtATime'
    \/ SetIdle /\ OneAtATime'
    \/ ReturnResult /\ OneAtATime'

SpecSendSerial == SendInit /\ [][SendSerialNext]_vars

\* the step by which a run returns leaves the status of its session idle
IdleOnReturn ==
    \A r \in Runs :
        (e_pc[r] = "return" /\ e_pc'[r] = "returned") =>
            chat_session'[e_args[r].user].status = "idle"

(***************************************************************************)
(* C28: execute sets the session to busy after the user message is stored  *)
(* and before the LLM is called, and to idle after the assistant message   *)
(* is stored; whenever execute returns the status of the session is idle,  *)
(* also when the LLM call raised, whose error text is then stored as the   *)
(* assistant message.                                                      *)
(***************************************************************************)
C28_BusyThenIdleOnReturn ==
    /\ []C28_BusyThenIdle
    /\ [][IdleOnReturn]_vars

(***************************************************************************)
(* The game routes: get_or_create_game_session (routes/games.py) and       *)
(* play_turn (routes/game_turn.py) over the collection game_session.       *)
(* A stored session is a record of the fields the two routes read and      *)
(* write; its position in the collection stands for its _id.               *)
(***************************************************************************)
\* the games asked for, and those db.games holds
GameIds == {1, 2}

games == {1}

GameUsers == {"u1", "u2"}

\* a stored attribute: the key is missing, or it is {current, max, base}
NoAttr == [kind |-> "absent", current |-> 0, max |-> 0, base |-> 0]

attr_of(current, max_) ==
    [kind |-> "dict", current |-> current, max |-> max_, base |-> current]

\* games.py, lines 508-535: the session get_or_create_game_session inserts
new_game_session(game_id, user_id) ==
    [game_id |-> game_id, user_ref_id |-> user_id,
     characters_info |-> <<>>,
     combat |-> [in_combat |-> FALSE, phase |-> "none"],
     story_history |-> <<>>,
     turn |-> 0,
     hp |-> attr_of(100, 100), mp |-> attr_of(80, 80), gold |-> 0]

\* services/game_session.py, lines 9-60: the characters_info of a game with
\* two characters, the second with mp disabled (its mp key is left out)
build_initial_characters_info ==
    << [char_ref_id |-> 7, hp |-> attr_of(50, 50), mp |-> attr_of(20, 20), gold |-> 0],
       [char_ref_id |-> 8, hp |-> attr_of(30, 30), mp |-> NoAttr, gold |-> 0] >>

\* a filter that names the game only
find_session_of_game(col, game_id, user_id) ==
    LET hits == {i \in 1..Len(col) : col[i].game_id = game_id}
    IN  IF hits = {} THEN 0 ELSE Min(hits)

\* find_one({"game_id": ..., "owner_ref_info.user_ref_id": ...}): the position
\* of the first session of that game and user, 0 when there is none
find_session(col, game_id, user_id) ==
    LET hits == {i \in 1..Len(col) :
                    col[i].game_id = game_id /\ col[i].user_ref_id = user_id}
    IN  IF hits = {} THEN 0 ELSE Min(hits)

\* max(0, min(max_val, current + delta)), game_turn.py lines 564-565
clamp_stat(current, delta, max_val) ==
    LET v == current + delta
        w == IF v < max_val THEN v ELSE max_val
    IN  IF w > 0 THEN w ELSE 0

\* max(0, gold + delta), game_turn.py line 566
clamp_gold(gold, delta) == IF gold + delta > 0 THEN gold + delta ELSE 0

\* game_turn.py, lines 114-123 and 133-143: CharacterState of a stored
\* character; a missing hp reads 100 of 100, a missing mp 0 of 0, and the
\* stored attributes go along as the field attributes
character_state(id, hp_attr, mp_attr, gold) ==
    [id |-> id,
     hp |-> IF hp_attr.kind = "dict" THEN hp_attr.current ELSE 100,
     hp_max |-> IF hp_attr.kind = "dict" THEN hp_attr.max ELSE 100,
     mp |-> IF mp_attr.kind = "dict" THEN mp_attr.current ELSE 0,
     mp_max |-> IF mp_attr.kind = "dict" THEN mp_attr.max ELSE 0,
     gold |-> gold,
     attributes |-> [hp |-> hp_attr, mp |-> mp_attr]]

\* the logs of one story_history entry: its narration when it has one, then
\* its dialogues, "user" read as "player" (lines 153-173)
logs_of_entry(h) ==
    (IF h.narration THEN <<[turn |-> h.turn, speaker_type |-> "narration"]>> ELSE <<>>)
    \o [i \in 1..Len(h.dialogues) |->
           [turn |-> h.turn,
            speaker_type |-> IF h.dialogues[i] = "user" THEN "player" ELSE h.dialogues[i]]]

RECURSIVE turn_logs_of(_)
turn_logs_of(story) ==
    IF story = <<>> THEN <<>>
    ELSE logs_of_entry(Head(story)) \o turn_logs_of(Tail(story))

\* _convert_game_session_to_session_snapshot, lines 99-184
to_session_snapshot(doc) ==
    [turn |-> doc.turn,
     player |-> character_state(0, doc.hp, doc.mp, doc.gold),
     npcs |-> [i \in 1..Len(doc.characters_info) |->
                  character_state(doc.characters_info[i].char_ref_id,
                                  doc.characters_info[i].hp,
                                  doc.characters_info[i].mp,
                                  doc.characters_info[i].gold)],
     combat |-> doc.combat,
     turn_logs |-> turn_logs_of(doc.story_history)]

\* a dict literal with the spread before the keys
spread_first(written, held) == written

\* {"hp": {...}, "mp": {...}, **attributes}, lines 200-213 and 224-237: a
\* key the attributes hold replaces the one written before the spread
spread(written, held) == IF held.kind = "absent" THEN written ELSE held

\* the stored form of a character of the snapshot
stored_hp(c) == spread(attr_of(c.hp, c.hp_max), c.attributes.hp)

stored_mp(c) == spread(attr_of(c.mp, c.mp_max), c.attributes.mp)

\* _convert_session_snapshot_to_game_session, lines 189-268: the fields
\* update_one sets (lines 606-612); the owner is not among them
to_game_session(doc, session) ==
    [doc EXCEPT
        !.turn = session.turn,
        !.hp = stored_hp(session.player),
        !.mp = stored_mp(session.player),
        !.gold = session.player.gold,
        !.characters_info =
            [i \in 1..Len(session.npcs) |->
                [char_ref_id |-> session.npcs[i].id,
                 hp |-> stored_hp(session.npcs[i]),
                 mp |-> stored_mp(session.npcs[i]),
                 gold |-> session.npcs[i].gold]],
        !.combat = session.combat,
        !.story_history =
            [i \in 1..Len(session.turn_logs) |->
                [turn |-> session.turn_logs[i].turn,
                 narration |-> session.turn_logs[i].speaker_type = "narration",
                 dialogues |-> IF session.turn_logs[i].speaker_type = "narration"
                               THEN <<>>
                               ELSE <<session.turn_logs[i].speaker_type>>]]]

\* apply_event_to_session, game_events.py lines 127-156, on the session dict
\* play_turn read; no event leaves it as it is (game_turn.py line 333)
apply_event_to_session(doc, event_result) ==
    IF event_result # "combat" THEN doc
    ELSE [doc EXCEPT
            !.combat = [in_combat |-> TRUE, phase |-> "start"],
            !.turn = doc.turn + 1,
            !.story_history = Append(doc.story_history,
                [turn |-> doc.turn + 1, narration |-> TRUE, dialogues |-> <<>>])]

\* an increase at every turn
turn_after_always(turn, event_result) == turn + 1

\* lines 519-520: the turn is increased when no event has increased it
turn_after(turn, event_result) == IF event_result = "none" THEN turn + 1 ELSE turn

\* lines 564-566 and 572-574: the deltas of one character, added and clamped
apply_delta(c, d) ==
    [c EXCEPT !.hp = clamp_stat(c.hp, d.hp_delta, c.hp_max),
              !.mp = clamp_stat(c.mp, d.mp_delta, c.mp_max),
              !.gold = clamp_gold(c.gold, d.gold_delta)]

\* lines 569-575: every change goes to the first npc with its char_ref_id
apply_one_change(npcs, c_change) ==
    LET hits == {i \in 1..Len(npcs) : npcs[i].id = c_change.char_ref_id}
    IN  IF hits = {} THEN npcs
        ELSE [npcs EXCEPT ![Min(hits)] = apply_delta(@, c_change)]

RECURSIVE apply_character_changes(_, _)
apply_character_changes(npcs, changes) ==
    IF changes = <<>> THEN npcs
    ELSE apply_character_changes(apply_one_change(npcs, Head(changes)), Tail(changes))

\* lines 579-581: updated_combat, when the reply has one
apply_updated_combat(combat, updated_combat) ==
    IF updated_combat = "none" THEN combat
    ELSE [in_combat |-> FALSE, phase |-> "end"]

\* build_fallback_llm_response, lines 78-95: what a reply that does not
\* parse becomes
fallback_reply ==
    [narration |-> TRUE, dialogues |-> <<>>,
     user |-> [hp_delta |-> 0, mp_delta |-> 0, gold_delta |-> 0],
     characters |-> <<>>, updated_combat |-> "none"]

\* GameTurnLLMResponse, what the LLM may return: deltas inside and beyond
\* the range, a character of the session, one without mp, one the session
\* does not hold, an empty narration
LlmReplies ==
    { fallback_reply,
      [narration |-> TRUE, dialogues |-> <<"npc">>,
       user |-> [hp_delta |-> -30, mp_delta |-> -10, gold_delta |-> 50],
       characters |-> <<[char_ref_id |-> 7, hp_delta |-> -60, mp_delta |-> 100, gold_delta |-> -20]>>,
       updated_combat |-> "none"],
      [narration |-> FALSE, dialogues |-> <<"user">>,
       user |-> [hp_delta |-> 150, mp_delta |-> -200, gold_delta |-> -80],
       characters |-> <<[char_ref_id |-> 8, hp_delta |-> -10, mp_delta |-> 5, gold_delta |-> 40],
                        [char_ref_id |-> 9, hp_delta |-> -5, mp_delta |-> 0, gold_delta |-> 0]>>,
       updated_combat |-> "end"] }

\* lines 523-560: the logs of the turn, the player's message first
new_turns_of(turn, llm_reply) ==
    <<[turn |-> turn, speaker_type |-> "player"]>>
    \o (IF llm_reply.narration THEN <<[turn |-> turn, speaker_type |-> "narration"]>> ELSE <<>>)
    \o [i \in 1..Len(llm_reply.dialogues) |->
           [turn |-> turn,
            speaker_type |-> IF llm_reply.dialogues[i] = "user" THEN "player"
                             ELSE llm_reply.dialogues[i]]]

\* lines 328-345 and 517-596: the snapshot play_turn saves, from the stored
\* session, the event and the reply
session_after_turn(doc, event_result, llm_reply) ==
    LET session == to_session_snapshot(apply_event_to_session(doc, event_result))
        turn == turn_after(session.turn, event_result)
    IN  [session EXCEPT
            !.turn = turn,
            !.turn_logs = @ \o new_turns_of(turn, llm_reply),
            !.player = apply_delta(@, llm_reply.user),
            !.npcs = apply_character_changes(@, llm_reply.characters),
            !.combat = apply_updated_combat(@, llm_reply.updated_combat)]

\* the sessions play_turn may find: none, those get_or_create_game_session
\* inserts, one whose characters_info was filled in from the game, and two
\* of one user for one game
InitialCollections ==
    { <<>>,
      <<new_game_session(1, "u1")>>,
      <<new_game_session(1, "u1"), new_game_session(1, "u2")>>,
      <<new_game_session(1, "u1"),
        [new_game_session(1, "u2") EXCEPT !.characters_info = build_initial_characters_info]>>,
      <<new_game_session(1, "u2"), new_game_session(1, "u1"), new_game_session(1, "u1")>> }

\* the turns played in the model, over all sessions
MaxTurn == 3

RECURSIVE turns_played(_)
turns_played(col) ==
    IF col = <<>> THEN 0 ELSE Head(col).turn + turns_played(Tail(col))

NoCall ==
    [user |-> "none", game_id |-> 0, status |-> 0, event |-> "none",
     llm_reply |-> fallback_reply, before |-> <<>>, new_turns |-> <<>>]

InitGame ==
    /\ FmtIdle /\ StoreInit /\ ParseIdle /\ InvokeIdle /\ StageIdle /\ GameOthersIdle
    /\ game_session \in InitialCollections
    /\ t_call = NoCall
    /\ s_pc = <<>> /\ s_args = <<>> /\ s_result = <<>>

\* play_turn, lines 290-323: no user, no session of the user for the game,
\* or no such game; nothing is written
PlayTurnRejected ==
    /\ \E u \in GameUsers \cup {"none"}, g \in GameIds :
        /\ u = "none" \/ find_session(game_session, g, u) = 0 \/ g \notin games
        /\ t_call' = [NoCall EXCEPT
               !.user = u, !.game_id = g, !.before = game_session,
               !.status = IF u # "none" /\ g \notin games THEN 404 ELSE 401]
    /\ UNCHANGED <<game_session, s_pc, s_args, s_result, gameFrame>>

\* play_turn, lines 302-345 and 449-497: the event is applied to the dict
\* read from the collection, the LLM call raises, and the handler answers
\* 500 before update_one
PlayTurnLlmFails ==
    /\ \E u \in GameUsers, g \in games, ev \in {"none", "combat"} :
        /\ find_session(game_session, g, u) # 0
        /\ t_call' = [NoCall EXCEPT
               !.user = u, !.game_id = g, !.before = game_session,
               !.event = ev, !.status = 500]
    /\ UNCHANGED <<game_session, s_pc, s_args, s_result, gameFrame>>

\* play_turn, lines 302-677, answering 200: update_one with the filter of
\* find_one sets the fields of the saved snapshot
PlayTurn ==
    /\ \E u \in GameUsers, g \in games, ev \in {"none", "combat"}, llm_reply \in LlmReplies :
        LET idx == find_session(game_session, g, u)
        IN  /\ idx # 0
            /\ turns_played(game_session) < MaxTurn
            /\ LET session == session_after_turn(game_session[idx], ev, llm_reply)
               IN  /\ game_session' = [game_session EXCEPT
                          ![idx] = to_game_session(game_session[idx], session)]
                   /\ t_call' = [user |-> u, game_id |-> g, status |-> 200, event |-> ev,
                                 llm_reply |-> llm_reply, before |-> game_session,
                                 new_turns |-> new_turns_of(session.turn, llm_reply)]
    /\ UNCHANGED <<s_pc, s_args, s_result, gameFrame>>

GameNext == PlayTurnRejected \/ PlayTurnLlmFails \/ PlayTurn

SpecGame == InitGame /\ [][GameNext]_vars

\* hp, mp and gold of a stored character as play_turn reads them
stats_of(c) ==
    [hp |-> c.hp, hp_max |-> c.hp_max, mp |-> c.mp, mp_max |-> c.mp_max, gold |-> c.gold]

StoredState(x) == character_state(0, x.hp, x.mp, x.gold)

InRange(x) ==
    LET c == StoredState(x)
    IN  /\ 0 <= c.hp /\ c.hp <= c.hp_max
        /\ 0 <= c.mp /\ c.mp <= c.mp_max
        /\ c.gold >= 0

\* the session the last call of play_turn found, in the collection before
\* the call and now
TurnDoc == find_session(t_call.before, t_call.game_id, t_call.user)

DocBefore == t_call.before[TurnDoc]

DocAfter == game_session[TurnDoc]

\* the changes of the reply that name the character
ChangesOf(char_ref_id) ==
    {i \in 1..Len(t_call.llm_reply.characters) :
        t_call.llm_reply.characters[i].char_ref_id = char_ref_id}

\* after a successful turn the stored player and the stored characters the
\* reply names are within their ranges, the stored gold is the clamped sum,
\* and the characters the reply does not name read as before
C22_StoredInRange ==
    t_call.status = 200 =>
        /\ InRange(DocAfter)
        /\ DocAfter.gold = clamp_gold(DocBefore.gold, t_call.llm_reply.user.gold_delta)
        /\ Len(DocAfter.characters_info) = Len(DocBefore.characters_info)
        /\ \A k \in 1..Len(DocAfter.characters_info) :
               IF ChangesOf(DocBefore.characters_info[k].char_ref_id) # {}
               THEN InRange(DocAfter.characters_info[k])
               ELSE stats_of(StoredState(DocAfter.characters_info[k]))
                        = stats_of(StoredState(DocBefore.characters_info[k]))

(***************************************************************************)
(* C22: after every successful game turn the stored player and every       *)
(* stored character the status changes name hold the delta added to the    *)
(* current value and clamped, so that 0 <= hp <= hp_max, 0 <= mp <= mp_max *)
(* and gold >= 0, and the characters not named keep hp, mp and gold.       *)
(***************************************************************************)
C22_DeltasAddedAndClamped ==
    t_call.status = 200 =>
        /\ C22_StoredInRange
        /\ stats_of(StoredState(DocAfter))
               = stats_of(apply_delta(StoredState(DocBefore), t_call.llm_reply.user))
        /\ \A k \in 1..Len(DocAfter.characters_info) :
               \A i \in ChangesOf(DocBefore.characters_info[k].char_ref_id) :
                   stats_of(StoredState(DocAfter.characters_info[k]))
                       = stats_of(apply_delta(StoredState(DocBefore.characters_info[k]),
                                              t_call.llm_reply.characters[i]))

\* a turn whose reply takes 30 hp from a player stored with 100 of 100 has
\* been saved, and the stored hp is 100
C22_DeltaLost ==
    /\ t_call.status = 200
    /\ t_call.llm_reply.user.hp_delta = -30
    /\ StoredState(DocBefore).hp = 100
    /\ StoredState(DocAfter).hp = 100

\* the sessions of the collection before the last call that belong to the
\* caller and the game of the call
OwnSessions ==
    {i \in 1..Len(t_call.before) :
        /\ t_call.before[i].user_ref_id = t_call.user
        /\ t_call.before[i].game_id = t_call.game_id}

(***************************************************************************)
(* C23: play_turn called by user u for game g changes only a session whose *)
(* owner is u and whose game is g, and leaves owner and game of it as they *)
(* are; no session is added or removed; when u has no session for g the    *)
(* collection is left as it was and the call is rejected, by 404 when the  *)
(* game does not exist and by 401 otherwise.                               *)
(***************************************************************************)
C23_OnlyOwnSession ==
    t_call.status # 0 =>
        /\ Len(game_session) = Len(t_call.before)
        /\ \A i \in 1..Len(game_session) :
               /\ game_session[i].user_ref_id = t_call.before[i].user_ref_id
               /\ game_session[i].game_id = t_call.before[i].game_id
               /\ game_session[i] # t_call.before[i] => i \in OwnSessions
        /\ t_call.status = 200 => OwnSessions # {}
        /\ OwnSessions = {} =>
               /\ game_session = t_call.before
               /\ t_call.status \in {401, 404}
               /\ t_call.user # "none" =>
                      (t_call.status = 404 <=> t_call.game_id \notin games)

\* a turn of one user has been saved while the collection holds the session
\* of another user for the same game
C23_Witness ==
    /\ t_call.status = 200
    /\ game_session # t_call.before
    /\ \E i \in 1..Len(game_session) :
           /\ game_session[i].game_id = t_call.game_id
           /\ game_session[i].user_ref_id # t_call.user

\* a user with no session for an existing game has been rejected
C23_Rejected ==
    /\ t_call.status = 401
    /\ t_call.user # "none"
    /\ OwnSessions = {}
    /\ t_call.before # <<>>

\* the entries the call added to the stored story
AddedLogs ==
    SubSeq(turn_logs_of(DocAfter.story_history),
           Len(turn_logs_of(DocBefore.story_history)) + 1,
           Len(turn_logs_of(DocAfter.story_history)))

(***************************************************************************)
(* C30: every successful play_turn increases the stored turn counter of    *)
(* the session by exactly 1, with or without a random combat event, and    *)
(* every log the call adds (the event's and the turn's) carries the new    *)
(* turn number; when the LLM call fails the stored collection is what it   *)
(* was before the call, whatever event was applied in memory.              *)
(***************************************************************************)
C30_TurnIncreasesByOne ==
    /\ t_call.status = 200 =>
           /\ DocAfter.turn = DocBefore.turn + 1
           /\ \A i \in 1..Len(t_call.new_turns) : t_call.new_turns[i].turn = DocAfter.turn
           /\ turn_logs_of(DocAfter.story_history)
                  = turn_logs_of(DocBefore.story_history) \o AddedLogs
           /\ Len(AddedLogs) = Len(t_call.new_turns) + (IF t_call.event = "combat" THEN 1 ELSE 0)
           /\ \A i \in 1..Len(AddedLogs) : AddedLogs[i].turn = DocAfter.turn
    /\ t_call.status = 500 => game_session = t_call.before

\* a turn in which the combat event fired has been saved on a session that
\* had been played before
C30_Witness ==
    /\ t_call.status = 200
    /\ t_call.event = "combat"
    /\ DocBefore.turn >= 1
    /\ DocAfter.turn = DocBefore.turn + 1
    /\ DocAfter.combat.in_combat

\* the LLM call has failed in a turn in which the combat event had fired
C30_FailedWitness ==
    /\ t_call.status = 500
    /\ t_call.event = "combat"
    /\ game_session = t_call.before
    /\ game_session # <<>>

(***************************************************************************)
(* get_or_create_game_session, games.py lines 468-540: find_one, and when  *)
(* it finds nothing, insert_one. The two are two calls of the database,    *)
(* and between them the database serves the calls of other requests.       *)
(***************************************************************************)
SessionCallers == {1, 2}

\* startup.py, lines 47-50: the index on (game_id, owner_ref_info.user_ref_id)
\* is created without unique=True
SESSION_INDEX_IS_UNIQUE == FALSE

\* insert_one raises DuplicateKeyError only under a unique index
session_insert_raises(col, game_id, user_id) ==
    SESSION_INDEX_IS_UNIQUE /\ find_session(col, game_id, user_id) # 0

InitSessions ==
    /\ FmtIdle /\ StoreInit /\ ParseIdle /\ InvokeIdle /\ StageIdle /\ GameOthersIdle
    /\ game_session \in {<<>>, <<new_game_session(1, "u2")>>}
    /\ t_call = NoCall
    /\ s_pc = [c \in SessionCallers |-> "find"]
    /\ s_args \in [SessionCallers -> [game_id : GameIds, user : GameUsers]]
    /\ s_result = [c \in SessionCallers |-> 0]

\* lines 485-504: the session found is returned; with none and no such game
\* the answer is 404
FindSession ==
    /\ \E c \in SessionCallers :
        /\ s_pc[c] = "find"
        /\ LET hit == find_session(game_session, s_args[c].game_id, s_args[c].user)
           IN  /\ s_result' = [s_result EXCEPT ![c] = hit]
               /\ s_pc' = [s_pc EXCEPT ![c] =
                      IF hit # 0 THEN "returned"
                      ELSE IF s_args[c].game_id \notin games THEN "not_found"
                      ELSE "insert"]
    /\ UNCHANGED <<game_session, t_call, s_args, gameFrame>>

\* lines 506-540: the new session is inserted and returned
InsertSession ==
    /\ \E c \in SessionCallers :
        /\ s_pc[c] = "insert"
        /\ IF session_insert_raises(game_session, s_args[c].game_id, s_args[c].user)
           THEN /\ s_pc' = [s_pc EXCEPT ![c] = "raised"]
                /\ UNCHANGED <<game_session, s_result>>
           ELSE /\ game_session' = Append(game_session,
                       new_game_session(s_args[c].game_id, s_args[c].user))
                /\ s_result' = [s_result EXCEPT ![c] = Len(game_session) + 1]
                /\ s_pc' = [s_pc EXCEPT ![c] = "returned"]
    /\ UNCHANGED <<t_call, s_args, gameFrame>>

SessionsNext == FindSession \/ InsertSession

SpecSessions == InitSessions /\ [][SessionsNext]_vars

\* the sessions of the collection for a game and a user
SessionsOf(game_id, user_id) ==
    {i \in 1..Len(game_session) :
        game_session[i].game_id = game_id /\ game_session[i].user_ref_id = user_id}

(***************************************************************************)
(* C29: after any interleaving of get_or_create_game_session calls for a   *)
(* game and a user the collection holds at most one session of that game   *)
(* and user, and every call that has returned has returned that session.   *)
(***************************************************************************)
C29_AtMostOneSession ==
    /\ \A g \in GameIds, u \in GameUsers : Cardinality(SessionsOf(g, u)) <= 1
    /\ \A c, d \in SessionCallers :
           (s_pc[c] = "returned" /\ s_pc[d] = "returned" /\ s_args[c] = s_args[d])
               => s_result[c] = s_result[d]

\* two calls for one game and user have returned, each the session it
\* inserted itself
C29_TwoSessions ==
    \E c, d \in SessionCallers :
        /\ s_pc[c] = "returned" /\ s_pc[d] = "returned"
        /\ s_args[c] = s_args[d]
        /\ s_result[c] # s_result[d]
        /\ Cardinality(SessionsOf(s_args[c].game_id, s_args[c].user)) = 2

\* what holds in every interleaving: a call that has returned has returned a
\* session of its game and user, a call for a missing game has inserted
\* nothing, and a call that starts when the session exists returns it
C29_ReturnsSessionOfPair ==
    \A c \in SessionCallers :
        /\ s_pc[c] = "returned" =>
               s_result[c] \in SessionsOf(s_args[c].game_id, s_args[c].user)
        /\ s_pc[c] = "not_found" =>
               /\ s_args[c].game_id \notin games
               /\ SessionsOf(s_args[c].game_id, s_args[c].user) = {}

(***************************************************************************)
(* apps/api/main.py, lines 25-62: the application and its CORSMiddleware.  *)
(* The middleware is Starlette's; what it does with the configuration of   *)
(* lines 46-62 (an explicit list of origins, credentials allowed, every    *)
(* method, every header) is written out below: a request without Origin   *)
(* goes to the application untouched, an OPTIONS request that carries      *)
(* Access-Control-Request-Method is answered by the middleware itself, and *)
(* every other request goes to the application and has the CORS headers    *)
(* added to its response.                                                  *)
(***************************************************************************)
\* lines 28-41
ALLOWED_ORIGINS ==
    {"http://localhost", "http://127.0.0.1",
     "http://localhost:3000", "http://127.0.0.1:3000",
     "http://localhost:5173", "http://127.0.0.1:5173",
     "http://localhost:8000", "http://127.0.0.1:8000",
     "https://arcanaverse.ai", "https://www.arcanaverse.ai"}

\* the Origin headers of the requests: the allowed ones, others (one that
\* differs from an allowed one by its port, one by its scheme), and none
Origins ==
    ALLOWED_ORIGINS \cup {"https://evil.com", "http://localhost:9999",
                          "http://arcanaverse.ai", "none"}

\* allow_methods=["*"], line 50: the methods the middleware then allows
ALL_METHODS == {"DELETE", "GET", "HEAD", "OPTIONS", "PATCH", "POST", "PUT"}

Requests ==
    [method : {"GET", "OPTIONS"},
     path : {"/health", "/nowhere"},
     origin : Origins,
     request_method : {"none", "GET", "POST", "DELETE"}]

\* an origin list that lets every origin in
allows_every_origin(origin) == TRUE

\* allow_origins=ALLOWED_ORIGINS, line 48
is_allowed_origin(origin) == origin \in ALLOWED_ORIGINS

\* a response with none of the three headers
NoHeaders ==
    [status |-> 0, allow_origin |-> "none", allow_credentials |-> "none",
     allow_methods |-> {}]

\* routes/health.py, lines 7-12: GET /health answers 200; the router knows
\* no other method of the path and no other path of the model
app_status(req) ==
    IF req.path # "/health" THEN 404
    ELSE IF req.method = "GET" THEN 200
    ELSE 405

\* the answer of the middleware to a preflight request: 200 with the origin
\* named when it is allowed and the method is one of those allowed, 400
\* otherwise; allow_credentials=True (line 49) and the methods are sent
\* either way
preflight_response(req) ==
    LET origin_ok == is_allowed_origin(req.origin)
        method_ok == req.request_method \in ALL_METHODS
    IN  [status |-> IF origin_ok /\ method_ok THEN 200 ELSE 400,
         allow_origin |-> IF origin_ok THEN req.origin ELSE "none",
         allow_credentials |-> "true",
         allow_methods |-> ALL_METHODS]

\* the response of the application with the headers of the middleware: the
\* credentials header always, the origin when it is allowed
simple_response(req) ==
    [status |-> app_status(req),
     allow_origin |-> IF is_allowed_origin(req.origin) THEN req.origin ELSE "none",
     allow_credentials |-> "true",
     allow_methods |-> {}]

is_preflight(req) == req.method = "OPTIONS" /\ req.request_method # "none"

cors_response(req) ==
    IF req.origin = "none" THEN [NoHeaders EXCEPT !.status = app_status(req)]
    ELSE IF is_preflight(req) THEN preflight_response(req)
    ELSE simple_response(req)

NoRequest == [method |-> "none", path |-> "none", origin |-> "none", request_method |-> "none"]

InitCors ==
    /\ FmtIdle /\ StoreInit /\ ParseIdle /\ InvokeIdle /\ StageIdle /\ CorsOthersIdle
    /\ c_request = NoRequest
    /\ c_response = NoHeaders

\* one request through the middleware and the application
HandleRequest ==
    /\ \E req \in Requests :
        /\ c_request' = req
        /\ c_response' = cors_response(req)
    /\ UNCHANGED corsFrame

CorsNext == HandleRequest

SpecCors == InitCors /\ [][CorsNext]_vars

C24_Preflight ==
    /\ c_request = [method |-> "OPTIONS", path |-> "/health",
                    origin |-> "https://arcanaverse.ai", request_method |-> "GET"]
    /\ c_response.status = 200
    /\ c_response.allow_origin = "https://arcanaverse.ai"
    /\ c_response.allow_methods = ALL_METHODS

====
